---- MODULE Spec2Model ----
(***************************************************************************)
(* Sign-glove backend: the /ws/predict streaming endpoint                   *)
(* (backend/routes/liveWS.py), the classifier entry points                  *)
(* (backend/core/model.py, backend/routes/predict_routes.py) and the IMU    *)
(* gyroscope calibration (backend/processors/imu_normalizer.py).            *)
(*                                                                         *)
(* The server is one asyncio event loop.  A coroutine runs from one await  *)
(* to the next without interruption; `running` names the coroutine that    *)
(* holds the loop thread inside a synchronous call (the classifier), and   *)
(* every other coroutine step waits until the loop is free.                *)
(***************************************************************************)
EXTENDS Integers, FiniteSets, Sequences, TLC

VARIABLES
    now,            \* time.time(), in seconds
    rate_limiter,   \* liveWS.rate_limiter: host -> time of last accepted message
    host,           \* per connection: websocket.client.host
    pc,             \* per connection: position of websocket_predict
    peer,           \* per connection: the client side of the socket is still open
    resp,           \* per connection: envelope handed to send_json
    buffer,         \* per connection: arrival times of the frames that wait in
                    \*   the socket for receive_text, oldest first
    running,        \* coroutine holding the loop thread in a synchronous call
    last,           \* per connection: course of the latest message (history)
    lastScored,     \* per host: time the last frame went to the classifier (history)
    purgedSince,    \* per host: entry deleted since lastScored (history)
    latest,         \* per host: connection whose message was accepted last (history)
    httpPc,         \* POST /predict/ handler position
    gyro_len,       \* len(IMUNormalizer.gyro_calibration_samples)
    gyro_calibrated,\* IMUNormalizer.gyro_calibrated
    yaw_prev,       \* IMUNormalizer.yaw_prev, in units of dt degrees
    calls,          \* number of calibrate_gyro calls made (history)
    gyro_stats,     \* IMUNormalizer.gyro_stats of one axis: mean and std
    gyro_out,       \* value returned by the latest normalize_gyro call, as
                    \*   <<numerator, denominator>>
    nr_module,      \* module whose NoiseReducer was constructed, or "none"
    window_size,    \* NoiseReducer.window_size
    sensor_buffers, \* NoiseReducer.sensor_buffers: key -> deque contents
    ma_in,          \* argument of the latest moving_average_window call
    ma_run,         \* number of latest consecutive calls with that argument (history)
    ma_out,         \* what the latest moving_average_window call returned or raised
    od_in,          \* argument of the latest outlier_detection call
    od_out,         \* what that call returned (a list of fractions) or raised
    reg_made,       \* a RegularizationAlgorithms instance has been constructed
    reg_window,     \* RegularizationAlgorithms.window_size
    sensor_states,  \* RegularizationAlgorithms.sensor_states: key -> state
    buffers,        \* RegularizationAlgorithms.buffers: key -> deque contents
    reg_calls,      \* filter calls made since construction or reset (history)
    reg_used,       \* filters called on plain sensor ids since then (history)
    reg_call,       \* the latest filter call: method, measurement, alpha
    reg_prev,       \* estimate held for that sensor before the call (history)
    reg_out,        \* what the latest filter call returned or raised
    reg_seed,       \* value the first exponential call of the session stored (history)
    reg_alphas,     \* alphas the exponential calls of the session used (history)
    reg_session,    \* whether the latest reset found state to clear, and the
                    \* number of calls made since (history)
    fr_call,        \* the latest call on a whole frame: method, frame, options
    fr_out,         \* what that call returned (a list of fractions) or raised
    fr_weights,     \* blend weights the latest combined call worked with
    fr_calls,       \* calls on whole frames made so far (history)
    csv_call,       \* the latest process_csv_file call: its arguments
    csv_out,        \* what it returned and the rows it wrote
    cls_call,       \* the latest direct call of a classifier entry point
    cls_out,        \* the dict it returned, or the exception that left it
    col_pc,         \* collect_stream.main: "init", "running", "returned", "raised"
    col_reads,      \* read_sensor_data calls made so far (history)
    data_queue,     \* collect_stream: the list main shares with send_to_backend
    raw_rows,       \* rows written to the raw CSV file
    col_exc,        \* the exception that ended main, if any
    ws_pc,          \* send_to_backend: "none", "connecting", "connected", "backoff",
                    \* "cancelled"
    ws_sent,        \* payloads handed to ws.send that it accepted
    smoothed_rpy,   \* IMUNormalizer.smoothed_roll, _pitch, _yaw (or None)
    ang_call,       \* the latest normalize or process call: method and angles
    ang_out,        \* the three values it returned
    ang_calls,      \* process calls made so far (history)
    med_in,         \* the value given to the latest median_filter call
    med_out,        \* what that call returned or raised
    med_calls,      \* median_filter calls on the instance so far
    pws_pc,         \* websocket_predict: where the handler is
    pws_log,        \* the messages receive_json was given (history)
    pws_sent,       \* what send_json was given (history)
    pws_exc         \* the exception that left the handler

wsVars  == <<now, rate_limiter, host, pc, peer, resp, buffer, running, last,
             lastScored, purgedSince, latest, httpPc>>
imuVars == <<gyro_len, gyro_calibrated, yaw_prev, calls, gyro_stats, gyro_out>>
nrVars  == <<nr_module, window_size, sensor_buffers, ma_in, ma_run, ma_out,
             od_in, od_out>>
regVars == <<reg_made, reg_window, sensor_states, buffers, reg_calls, reg_used, reg_call,
             reg_prev, reg_out, reg_seed, reg_alphas, reg_session>>
frVars  == <<fr_call, fr_out, fr_weights, fr_calls>>
csvVars == <<csv_call, csv_out>>
dspVars == <<nrVars, regVars, frVars, csvVars>>
clsVars == <<cls_call, cls_out>>
colVars == <<col_pc, col_reads, data_queue, raw_rows, col_exc, ws_pc, ws_sent>>
angVars == <<smoothed_rpy, ang_call, ang_out, ang_calls>>
medVars == <<med_in, med_out, med_calls>>
pwsVars == <<pws_pc, pws_log, pws_sent, pws_exc>>
extVars == <<colVars, angVars, medVars, pwsVars>>
vars    == <<wsVars, imuVars, dspVars, clsVars, extVars>>

----------------------------------------------------------------------------
(* Bounds of the model *)
MaxTime  == 60      \* the clock stops here
TickStep == 30      \* seconds between two observations of the clock
MaxBacklog == 2     \* frames that may wait in one socket
MaxCalls == 103     \* calibrate_gyro calls explored
MaxYaw   == 1       \* |yaw_prev| explored
MaxWindow == 3      \* largest window_size explored
MaxFrame == 6       \* longest frame given to outlier_detection
MaxRows  == 3       \* filter calls per sensor in one session
MaxValues == 12     \* length of the longest list passed to the classifier
MaxProcess == 3     \* process calls explored
MaxMessages == 3    \* messages one /ws/predict connection receives
MaxReads == 30      \* read_sensor_data calls explored
MaxFrameCalls == 2  \* calls on whole frames in one behaviour

(* Program constants *)
SENSOR_COUNT               == 11
RATE_LIMIT_SECONDS         == 60
calibration_samples_needed == 100
THRESHOLD                  == 2
TOTAL_SENSORS              == 11
MAX_QUEUE_SIZE             == 20
COLLECTOR_WINDOW           == 5

NoEntry == 0 - 1            \* `client_ip not in rate_limiter`

Conns == {"c1", "c2"}
Hosts == {"h1", "h2"}
\* The hosts a connection slot may come from.  Host names are interchangeable,
\* so c1 on h1 with c2 on either host covers every placement of two connections.
HostsOf(c) == IF c = "c1" THEN {"h1"} ELSE Hosts
\* client_ip = websocket.client.host
client_ip(c) == host[c]

----------------------------------------------------------------------------
(* Inbound text frames, by what the decoder looks at. *)
\* not JSON
Garbage   == [json |-> FALSE, obj |-> FALSE, hand |-> "none", len |-> 0,  inrange |-> TRUE]
\* JSON, but no object: [1, 2, 3]
NonObject == [json |-> TRUE,  obj |-> FALSE, hand |-> "none", len |-> 3,  inrange |-> TRUE]
\* {"timestamp": 1.0}
NoHand    == [json |-> TRUE,  obj |-> TRUE,  hand |-> "none", len |-> 0,  inrange |-> TRUE]
\* {"right": [11 floats], "timestamp": 1.0}
Flat11    == [json |-> TRUE,  obj |-> TRUE,  hand |-> "list", len |-> 11, inrange |-> TRUE]
\* {"right": {"values": [11 floats], "timestamp": 1.0}}
Nested11  == [json |-> TRUE,  obj |-> TRUE,  hand |-> "dict", len |-> 11, inrange |-> TRUE]
\* {"right": {"values": [9 floats], "timestamp": 1.0}}
Nested9   == [json |-> TRUE,  obj |-> TRUE,  hand |-> "dict", len |-> 9,  inrange |-> TRUE]
\* {"right": {"values": [11 floats, one of them 5000], "timestamp": 1.0}}
NestedFar == [json |-> TRUE,  obj |-> TRUE,  hand |-> "dict", len |-> 11, inrange |-> FALSE]
Messages  == {Garbage, NonObject, NoHand, Flat11, Nested11, Nested9, NestedFar}

\* json.loads(data)
json_loads(m) == IF m.json THEN "ok" ELSE "JSONDecodeError"

\* WebSocketMessage(**message_data): ** needs a mapping; left/right must be dicts
WebSocketMessage(m) ==
    IF ~m.obj THEN "TypeError"
    ELSE IF m.hand = "list" THEN "ValidationError"
    ELSE "ok"

\* SensorData.validate_values
validate_values(m) == m.len = SENSOR_COUNT /\ m.inrange

\* a sensor vector that does not have exactly SENSOR_COUNT values
WrongArity(m) == m.obj /\ m.hand \in {"list", "dict"} /\ m.len # SENSOR_COUNT

\* What the synchronous part of the loop body does with an accepted message:
\* "json_error" / "validation_error" (an error envelope is sent),
\* "crash" (the exception reaches the outer `except Exception`),
\* "predict" (predict_gesture is called).
Decode(m) ==
    IF json_loads(m) # "ok" THEN "json_error"
    ELSE IF WebSocketMessage(m) = "TypeError" THEN "crash"
    ELSE IF WebSocketMessage(m) = "ValidationError" THEN "validation_error"
    ELSE IF m.hand = "none" THEN "validation_error"
    ELSE IF ~validate_values(m) THEN "validation_error"
    ELSE "predict"

\* (variant) the comparison of the rate-limit test turned round
RateLimitedFlipped(h, t) ==
    /\ rate_limiter[h] # NoEntry
    /\ t - rate_limiter[h] > RATE_LIMIT_SECONDS

\* The rate-limit test of websocket_predict
RateLimited(h, t) ==
    /\ rate_limiter[h] # NoEntry
    /\ t - rate_limiter[h] < RATE_LIMIT_SECONDS

\* What the classifier meets: the model loads and runs, the model file is
\* missing, or TensorFlow raises
ClassifierEnv == {"ok", "nofile", "raise"}

\* (variant) predict_gesture without its try/except
predict_gesture_uncaught(len, env) ==
    IF len # 11 THEN "error"
    ELSE IF env = "nofile" THEN "error"
    ELSE IF env = "raise" THEN "exception"
    ELSE "success"

\* predict_gesture: every failure inside is caught and returned as status "error"
predict_gesture(len, env) ==
    IF len # 11 THEN "error"
    ELSE IF env = "nofile" THEN "error"
    ELSE IF env = "raise" THEN "error"
    ELSE "success"

\* (variant) the classifier awaited on an executor: the loop thread is released
PredictHolderAwaited(c) == "none"

\* predict_gesture is called synchronously: the caller keeps the loop thread
PredictHolder(c) == c

LoopFree == running = "none"

\* `if client_ip in rate_limiter: del rate_limiter[client_ip]`
Purge(h) ==
    /\ rate_limiter' = [rate_limiter EXCEPT ![h] = NoEntry]
    /\ purgedSince' = [purgedSince EXCEPT ![h] = @ \/ rate_limiter[h] # NoEntry]
    /\ latest' = [latest EXCEPT ![h] = "none"]

----------------------------------------------------------------------------
WsInit ==
    /\ now = 0
    /\ rate_limiter = [h \in Hosts |-> NoEntry]
    /\ host = [c \in Conns |-> "h1"]
    /\ pc = [c \in Conns |-> "idle"]
    /\ peer = [c \in Conns |-> FALSE]
    /\ resp = [c \in Conns |-> "none"]
    /\ buffer = [c \in Conns |-> <<>>]
    /\ running = "none"
    /\ last = [c \in Conns |-> "none"]
    /\ lastScored = [h \in Hosts |-> NoEntry]
    /\ purgedSince = [h \in Hosts |-> FALSE]
    /\ latest = [h \in Hosts |-> "none"]
    /\ httpPc = "idle"

ImuInit ==
    /\ gyro_len = 0
    /\ gyro_calibrated = FALSE
    /\ yaw_prev = 0
    /\ calls = 0
    /\ gyro_stats = [mean |-> 0, std |-> 1]
    /\ gyro_out = <<0, 1>>

\* No filter object has been constructed yet
NrInit ==
    /\ nr_module = "none"
    /\ window_size = 0
    /\ sensor_buffers = [k \in {} |-> <<>>]
    /\ ma_in = 0
    /\ ma_run = 0
    /\ ma_out = [kind |-> "none", num |-> 0, den |-> 1]
    /\ od_in = <<>>
    /\ od_out = [kind |-> "none", list |-> <<>>]

\* a session nothing was cleared for and nothing was called in
NewSession == [cleared |-> FALSE, since |-> 0]

NoCall == [method |-> "none", x |-> 0, alpha |-> <<0, 1>>]
NoReturn == [kind |-> "none", val |-> <<0, 1>>]

RegInit ==
    /\ reg_made = FALSE
    /\ reg_window = 0
    /\ sensor_states = [k \in {} |-> 0]
    /\ buffers = [k \in {} |-> <<>>]
    /\ reg_calls = 0
    /\ reg_used = {}
    /\ reg_call = NoCall
    /\ reg_prev = <<0, 1>>
    /\ reg_out = NoReturn
    /\ reg_seed = <<0, 1>>
    /\ reg_alphas = {}
    /\ reg_session = NewSession

NoFrameCall == [method |-> "none", data |-> <<>>, opt |-> "none", sw |-> {}]
NoWeights == [kalman |-> <<0, 1>>, weighted |-> <<0, 1>>, exponential |-> <<0, 1>>]

FrInit ==
    /\ fr_call = NoFrameCall
    /\ fr_out = [kind |-> "none", list |-> <<>>]
    /\ fr_weights = NoWeights
    /\ fr_calls = 0

NoCsvCall == [exists |-> FALSE, rows |-> <<>>, method |-> "none", dirty |-> FALSE]
NoCsvOut == [ret |-> 0, written |-> <<>>]

CsvInit ==
    /\ csv_call = NoCsvCall
    /\ csv_out = NoCsvOut

MissingHand == [kind |-> "missing", len |-> 0]
NoResult == [status |-> "none", message |-> "none", invoked |-> FALSE]

ClsInit ==
    /\ cls_call = [fn |-> "none", kind |-> "none", left |-> MissingHand, right |-> MissingHand,
                   env |-> "ok"]
    /\ cls_out = NoResult

ColInit ==
    /\ col_pc = "init"
    /\ col_reads = 0
    /\ data_queue = <<>>
    /\ raw_rows = <<>>
    /\ col_exc = "none"
    /\ ws_pc = "none"
    /\ ws_sent = <<>>

Zero3 == <<<<0, 1>>, <<0, 1>>, <<0, 1>>>>

AngInit ==
    /\ smoothed_rpy = [set |-> FALSE, v |-> Zero3]
    /\ ang_call = [method |-> "none", v |-> Zero3]
    /\ ang_out = Zero3
    /\ ang_calls = 0

PwsInit ==
    /\ pws_pc = "init"
    /\ pws_log = <<>>
    /\ pws_sent = <<>>
    /\ pws_exc = "none"

MedInit ==
    /\ med_in = 0
    /\ med_out = [kind |-> "none", val |-> <<0, 1>>]
    /\ med_calls = 0

Init == WsInit /\ ImuInit /\ NrInit /\ RegInit /\ FrInit /\ CsvInit /\ ClsInit /\ ColInit
        /\ AngInit /\ MedInit /\ PwsInit

----------------------------------------------------------------------------
(* websocket_predict *)

\* a client on host h connects: client_ip is read, await websocket.accept()
Connect(c, h) ==
    /\ LoopFree
    /\ pc[c] \in {"idle", "closed"}
    /\ host' = [host EXCEPT ![c] = h]
    /\ pc' = [pc EXCEPT ![c] = "recv"]
    /\ peer' = [peer EXCEPT ![c] = TRUE]
    /\ last' = [last EXCEPT ![c] = "none"]
    /\ buffer' = [buffer EXCEPT ![c] = <<>>]
    /\ UNCHANGED <<now, rate_limiter, resp, running, lastScored, purgedSince,
                   latest, httpPc>>
    /\ UNCHANGED <<imuVars, dspVars, clsVars, extVars>>

\* The client goes away (network event, independent of the loop)
PeerClose(c) ==
    /\ pc[c] \in {"recv", "scoring", "send", "closing"}
    /\ peer[c]
    /\ peer' = [peer EXCEPT ![c] = FALSE]
    /\ UNCHANGED <<buffer, now, rate_limiter, host, pc, resp, running, last,
                   lastScored, purgedSince, latest, httpPc>>
    /\ UNCHANGED <<imuVars, dspVars, clsVars, extVars>>

\* receive_text raises WebSocketDisconnect: the entry of the host is deleted
RecvDisconnect(c) ==
    /\ LoopFree
    /\ pc[c] = "recv"
    /\ ~peer[c]
    /\ buffer[c] = <<>>
    /\ Purge(client_ip(c))
    /\ pc' = [pc EXCEPT ![c] = "closed"]
    /\ UNCHANGED <<buffer, now, host, peer, resp, running, last, lastScored, httpPc>>
    /\ UNCHANGED <<imuVars, dspVars, clsVars, extVars>>

\* The loop body once receive_text has returned m: rate limiting, parsing,
\* validation, up to the next await or to the call of predict_gesture
LoopBody(c, m) ==
    /\ LoopFree
    /\ pc[c] = "recv"
    /\ LET h == client_ip(c) IN
       IF RateLimited(h, now)
       THEN \* continue
            /\ last' = [last EXCEPT ![c] = "dropped"]
            /\ UNCHANGED <<rate_limiter, pc, resp, running, lastScored,
                           purgedSince, latest>>
       ELSE /\ rate_limiter' = [rate_limiter EXCEPT ![h] = now]
            /\ latest' = [latest EXCEPT ![h] = c]
            /\ CASE Decode(m) = "predict" ->
                     /\ pc' = [pc EXCEPT ![c] = "scoring"]
                     /\ running' = PredictHolder(c)
                     /\ last' = [last EXCEPT ![c] = "none"]
                     /\ lastScored' = [lastScored EXCEPT ![h] = now]
                     /\ purgedSince' = [purgedSince EXCEPT ![h] = FALSE]
                     /\ UNCHANGED resp
                 [] Decode(m) = "crash" ->
                     /\ pc' = [pc EXCEPT ![c] = "closing"]
                     /\ last' = [last EXCEPT ![c] = "none"]
                     /\ UNCHANGED <<resp, running, lastScored, purgedSince>>
                 [] OTHER ->
                     /\ pc' = [pc EXCEPT ![c] = "send"]
                     /\ resp' = [resp EXCEPT ![c] = "error"]
                     /\ last' = [last EXCEPT ![c] =
                                   IF WrongArity(m) THEN "arity_err" ELSE "none"]
                     /\ UNCHANGED <<running, lastScored, purgedSince>>
    /\ UNCHANGED <<now, host, peer, httpPc>>
    /\ UNCHANGED <<imuVars, dspVars, clsVars, extVars>>

\* receive_text returns m, a frame that the client has just sent
Receive(c, m) ==
    /\ peer[c]
    /\ buffer[c] = <<>>
    /\ LoopBody(c, m)
    /\ UNCHANGED buffer

\* the client sends a frame while its handler is not waiting in receive_text,
\* or the loop is busy: the frame waits in the socket
Arrive(c) ==
    /\ peer[c]
    /\ pc[c] \in {"recv", "scoring", "send"}
    /\ Len(buffer[c]) < MaxBacklog
    /\ buffer' = [buffer EXCEPT ![c] = Append(@, now)]
    /\ UNCHANGED <<now, rate_limiter, host, pc, peer, resp, running, last,
                   lastScored, purgedSince, latest, httpPc>>
    /\ UNCHANGED <<imuVars, dspVars, clsVars, extVars>>

\* receive_text returns m, the oldest frame that waits in the socket
ReceiveBuffered(c, m) ==
    /\ buffer[c] # <<>>
    /\ buffer' = [buffer EXCEPT ![c] = Tail(@)]
    /\ LoopBody(c, m)

\* predict_gesture returns (process_single_hand lines 124-140); the frame being
\* scored passed validate_values, so it has SENSOR_COUNT values
Score(c, env) ==
    /\ pc[c] = "scoring"
    /\ running \in {c, "none"}
    /\ LET r == predict_gesture(SENSOR_COUNT, env) IN
       CASE r = "success" ->
              /\ pc' = [pc EXCEPT ![c] = "send"]
              /\ resp' = [resp EXCEPT ![c] = "success"]
              /\ UNCHANGED last
         [] r = "error" ->
              /\ pc' = [pc EXCEPT ![c] = "send"]
              /\ resp' = [resp EXCEPT ![c] = "error"]
              /\ last' = [last EXCEPT ![c] = "classifier_err"]
         [] OTHER -> \* an exception leaves process_single_hand: `except Exception`
              /\ pc' = [pc EXCEPT ![c] = "closing"]
              /\ UNCHANGED <<resp, last>>
    /\ running' = IF running = c THEN "none" ELSE running
    /\ UNCHANGED <<buffer, now, rate_limiter, host, peer, lastScored, purgedSince,
                   latest, httpPc>>
    /\ UNCHANGED <<imuVars, dspVars, clsVars, extVars>>

\* await websocket.send_json(...) with the client still there
SendOk(c) ==
    /\ LoopFree
    /\ pc[c] = "send"
    /\ peer[c]
    /\ pc' = [pc EXCEPT ![c] = "recv"]
    /\ resp' = [resp EXCEPT ![c] = "none"]
    /\ UNCHANGED <<buffer, now, rate_limiter, host, peer, running, last, lastScored,
                   purgedSince, latest, httpPc>>
    /\ UNCHANGED <<imuVars, dspVars, clsVars, extVars>>

\* await websocket.send_json(...) on a socket the client has left.  What the
\* server stack does then depends on its version: the send is swallowed, or it
\* raises WebSocketDisconnect, or it raises another exception.
SendOutcomes == {"swallowed", "disconnect", "error"}
SendGone(c, outcome) ==
    /\ LoopFree
    /\ pc[c] = "send"
    /\ ~peer[c]
    /\ resp' = [resp EXCEPT ![c] = "none"]
    /\ CASE outcome = "swallowed" ->
              /\ pc' = [pc EXCEPT ![c] = "recv"]
              /\ UNCHANGED <<rate_limiter, purgedSince, latest>>
         [] outcome = "disconnect" ->
              /\ Purge(client_ip(c))
              /\ pc' = [pc EXCEPT ![c] = "closed"]
         [] OTHER ->
              /\ pc' = [pc EXCEPT ![c] = "closing"]
              /\ UNCHANGED <<rate_limiter, purgedSince, latest>>
    /\ UNCHANGED <<buffer, now, host, peer, running, last, lastScored, httpPc>>
    /\ UNCHANGED <<imuVars, dspVars, clsVars, extVars>>

\* `except Exception`: await websocket.close(); the handler ends
Close(c) ==
    /\ LoopFree
    /\ pc[c] = "closing"
    /\ pc' = [pc EXCEPT ![c] = "closed"]
    /\ peer' = [peer EXCEPT ![c] = FALSE]
    /\ UNCHANGED <<buffer, now, rate_limiter, host, resp, running, last, lastScored,
                   purgedSince, latest, httpPc>>
    /\ UNCHANGED <<imuVars, dspVars, clsVars, extVars>>

\* time passes; a handler with a frame to read runs as soon as the loop is free
Tick ==
    /\ now + TickStep <= MaxTime
    /\ LoopFree => \A c \in Conns : ~(pc[c] = "recv" /\ buffer[c] # <<>>)
    /\ now' = now + TickStep
    /\ UNCHANGED <<buffer, rate_limiter, host, pc, peer, resp, running, last,
                   lastScored, purgedSince, latest, httpPc>>
    /\ UNCHANGED <<imuVars, dspVars, clsVars, extVars>>

----------------------------------------------------------------------------
(* POST /predict/ : predict_label *)

\* a request with n values: 422 unless n = 11, else the interpreter is invoked
HttpRequest(n) ==
    /\ LoopFree
    /\ httpPc = "idle"
    /\ IF n # 11
       THEN UNCHANGED <<httpPc, running>>
       ELSE /\ httpPc' = "scoring"
            /\ running' = "http"
    /\ UNCHANGED <<buffer, now, rate_limiter, host, pc, peer, resp, last, lastScored,
                   purgedSince, latest>>
    /\ UNCHANGED <<imuVars, dspVars, clsVars, extVars>>

\* the interpreter returns (200) or raised (500)
HttpScore ==
    /\ httpPc = "scoring"
    /\ running \in {"http", "none"}
    /\ httpPc' = "idle"
    /\ running' = IF running = "http" THEN "none" ELSE running
    /\ UNCHANGED <<buffer, now, rate_limiter, host, pc, peer, resp, last, lastScored,
                   purgedSince, latest>>
    /\ UNCHANGED <<imuVars, dspVars, clsVars, extVars>>

----------------------------------------------------------------------------
(* IMUNormalizer *)

\* (variant) > for >=
CalibrationDueStrict(n) == n > calibration_samples_needed

\* `len(samples) >= calibration_samples_needed`
CalibrationDue(n) == n >= calibration_samples_needed

\* The statistics that the collected samples can give: np.mean, and
\* `np.std(...) or 1.0`, which is never 0
GyroStats == [mean : {0, 1}, std : {1, 2}]

calibrate_gyro ==
    /\ calls < MaxCalls
    /\ calls' = calls + 1
    /\ gyro_len' = gyro_len + 1
    /\ gyro_calibrated' = IF CalibrationDue(gyro_len + 1) THEN TRUE
                                                          ELSE gyro_calibrated
    /\ IF CalibrationDue(gyro_len + 1)
       THEN gyro_stats' \in GyroStats
       ELSE UNCHANGED gyro_stats
    /\ UNCHANGED <<yaw_prev, gyro_out>>
    /\ UNCHANGED <<wsVars, dspVars, clsVars, extVars>>

\* gyroscope readings of one axis
GyroInputs == {0 - 1, 0, 2}

\* (variant) the min-max scaling over the default range -500..500 applied
\* until the calibration is complete: 2 * (g + 500) / 1000 - 1
normalize_gyro_scaled(g) ==
    IF ~gyro_calibrated THEN <<g, 500>>
    ELSE <<g - gyro_stats.mean, gyro_stats.std>>

\* The value normalize_gyro returns for one axis: the reading itself until
\* calibrated, then (g - mean) / std
normalize_gyro_value(g) ==
    IF ~gyro_calibrated THEN <<g, 1>>
    ELSE <<g - gyro_stats.mean, gyro_stats.std>>

\* normalize_gyro(gx, gy, gz), one axis: it assigns no attribute
normalize_gyro(g) ==
    /\ gyro_out' = normalize_gyro_value(g)
    /\ UNCHANGED <<gyro_len, gyro_calibrated, yaw_prev, calls, gyro_stats>>
    /\ UNCHANGED <<wsVars, dspVars, clsVars, extVars>>

\* compute_yaw, the state-changing part of process: yaw_prev += gz * dt
compute_yaw(gz) ==
    /\ yaw_prev + gz >= 0 - MaxYaw
    /\ yaw_prev + gz <= MaxYaw
    /\ yaw_prev' = yaw_prev + gz
    /\ UNCHANGED <<gyro_len, gyro_calibrated, calls, gyro_stats, gyro_out>>
    /\ UNCHANGED <<wsVars, dspVars, clsVars, extVars>>

----------------------------------------------------------------------------
(* NoiseReducer: processors/noise_reducer.py and data/DPwNR.py *)

\* What a call gives back: the value num / den, None, or an exception
Returned(n, d) == [kind |-> "value", num |-> n, den |-> d]
ReturnedNone   == [kind |-> "None", num |-> 0, den |-> 1]
Raised(e)      == [kind |-> e, num |-> 0, den |-> 1]

NrModules   == {"noise_reducer", "DPwNR"}
WindowSizes == (0 - 1) .. MaxWindow
Samples     == {0, 1, 3}

RECURSIVE SumSeq(_)
SumSeq(q) == IF q = <<>> THEN 0 ELSE Head(q) + SumSeq(Tail(q))

\* (variant) a deque without maxlen
DequeAppendUnbounded(q, x, w) == Append(q, x)

\* deque(maxlen = w).append(x), for w >= 0
DequeAppend(q, x, w) ==
    IF w = 0 THEN <<>>
    ELSE IF Len(q) < w THEN Append(q, x)
    ELSE Append(Tail(q), x)

\* sum(buffer) / len(buffer)
Mean(q) == IF q = <<>> THEN Raised("ZeroDivisionError")
           ELSE Returned(SumSeq(q), Len(q))

\* NoiseReducer(window_size = w) of module m: nothing is checked
NoiseReducer(m, w) ==
    /\ nr_module' = m
    /\ window_size' = w
    /\ sensor_buffers' = [k \in {} |-> <<>>]
    /\ ma_in' = 0
    /\ ma_run' = 0
    /\ ma_out' = [kind |-> "none", num |-> 0, den |-> 1]
    /\ med_in' = 0
    /\ med_out' = [kind |-> "none", val |-> <<0, 1>>]
    /\ med_calls' = 0
    /\ UNCHANGED <<od_in, od_out>>
    /\ UNCHANGED <<wsVars, imuVars, clsVars, colVars, angVars, pwsVars, csvVars, regVars, frVars>>

\* the run of equal arguments that ends with the call on x
RunAfter(x) == IF ma_run > 0 /\ ma_in = x
               THEN (IF ma_run < MaxWindow THEN ma_run + 1 ELSE MaxWindow)
               ELSE 1

\* processors/noise_reducer.py: the buffer is created when missing, the value
\* appended, the mean of the buffer returned
moving_average_window_nr(x, id) ==
    LET has == id \in DOMAIN sensor_buffers
        old == IF has THEN sensor_buffers[id] ELSE <<>>
        new == DequeAppend(old, x, window_size) IN
    IF ~has /\ window_size < 0
    THEN \* deque(maxlen = negative) raises ValueError
         /\ ma_out' = Raised("ValueError")
         /\ UNCHANGED sensor_buffers
    ELSE /\ sensor_buffers' = [k \in DOMAIN sensor_buffers \cup {id} |->
                                 IF k = id THEN new ELSE sensor_buffers[k]]
         /\ ma_out' = Mean(new)

\* data/DPwNR.py: append and return sit inside `if id not in
\* self.sensor_buffers`; on a known id the method falls off its end
moving_average_window_dp(x, id) ==
    IF id \in DOMAIN sensor_buffers
    THEN /\ ma_out' = ReturnedNone
         /\ UNCHANGED sensor_buffers
    ELSE moving_average_window_nr(x, id)

moving_average_window(x, id) ==
    /\ nr_module # "none"
    /\ IF nr_module = "DPwNR" THEN moving_average_window_dp(x, id)
                               ELSE moving_average_window_nr(x, id)
    /\ ma_in' = x
    /\ ma_run' = RunAfter(x)
    /\ UNCHANGED <<nr_module, window_size, od_in, od_out>>
    /\ UNCHANGED <<wsVars, imuVars, clsVars, extVars, csvVars, regVars, frVars>>

\* Frames given to outlier_detection: the short ones, and one length at which
\* a z-score can pass THRESHOLD (it cannot in a frame of fewer than 6 values)
FrameValues == {0, 1}
FramesOfLen(n) == [1..n -> FrameValues]
Frames == FramesOfLen(0) \cup FramesOfLen(1) \cup FramesOfLen(2)
             \cup FramesOfLen(MaxFrame)

\* a list of floats as fractions <<numerator, denominator>>
AsFractions(f) == [i \in 1..Len(f) |-> <<f[i], 1>>]

\* Len(f)^2 * (Len(f) - 1) * statistics.stdev(f)^2
\*   = sum of (n * x - sum(f))^2
RECURSIVE SumSqDev(_, _, _)
SumSqDev(f, n, total) ==
    IF f = <<>> THEN 0
    ELSE (n * Head(f) - total) * (n * Head(f) - total)
            + SumSqDev(Tail(f), n, total)

\* (variant) the test `std_val == 0` left out
StdIsZeroSkipped(f) == FALSE

\* `std_val == 0`
StdIsZero(f) == SumSqDev(f, Len(f), SumSeq(f)) = 0

\* abs((value - mean_val) / std_val) > threshold, squared and cleared of
\* fractions: (n v - S)^2 (n - 1) > threshold^2 * sum of (n x - S)^2
ZScoreAbove(v, f, threshold) ==
    LET n == Len(f)
        S == SumSeq(f) IN
    (n * v - S) * (n * v - S) * (n - 1)
        > threshold * threshold * SumSqDev(f, n, S)

\* What outlier_detection(data_list) returns or raises
outlier_detection_value(f) ==
    IF Len(f) < 2 THEN [kind |-> "value", list |-> AsFractions(f)]
    ELSE IF StdIsZero(f) THEN [kind |-> "value", list |-> AsFractions(f)]
    ELSE IF SumSqDev(f, Len(f), SumSeq(f)) = 0
         THEN \* (value - mean_val) / std_val divides by zero
              [kind |-> "ZeroDivisionError", list |-> <<>>]
    ELSE [kind |-> "value",
          list |-> [i \in 1..Len(f) |->
                      IF ZScoreAbove(f[i], f, THRESHOLD)
                      THEN <<SumSeq(f), Len(f)>>
                      ELSE <<f[i], 1>>]]

\* outlier_detection(data_list): reads outlier_threshold, assigns nothing
outlier_detection(f) ==
    /\ nr_module # "none"
    /\ od_in' = f
    /\ od_out' = outlier_detection_value(f)
    /\ UNCHANGED <<nr_module, window_size, sensor_buffers, ma_in, ma_run, ma_out>>
    /\ UNCHANGED <<wsVars, imuVars, clsVars, extVars, csvVars, regVars, frVars>>

----------------------------------------------------------------------------
(* Exact arithmetic on fractions <<numerator, denominator>>, denominator > 0 *)

Abs(a) == IF a < 0 THEN 0 - a ELSE a

RECURSIVE GCD(_, _)
GCD(a, b) == IF b = 0 THEN a ELSE GCD(b, a % b)

Frac(n, d) ==
    LET g == GCD(Abs(n), d) IN
    IF g = 0 THEN <<0, 1>> ELSE <<n \div g, d \div g>>

FracOf(i) == <<i, 1>>

FracAdd(a, b) ==
    LET g == GCD(a[2], b[2])
        l == (a[2] \div g) * b[2] IN
    Frac(a[1] * (l \div a[2]) + b[1] * (l \div b[2]), l)

FracNeg(a) == <<0 - a[1], a[2]>>
FracSub(a, b) == FracAdd(a, FracNeg(b))

FracMul(a, b) ==
    LET g1 == GCD(Abs(a[1]), b[2])
        g2 == GCD(Abs(b[1]), a[2])
        h1 == IF g1 = 0 THEN 1 ELSE g1
        h2 == IF g2 = 0 THEN 1 ELSE g2 IN
    Frac((a[1] \div h1) * (b[1] \div h2), (a[2] \div h2) * (b[2] \div h1))

\* a / b for a >= 0, b > 0
FracDiv(a, b) == FracMul(a, <<b[2], b[1]>>)

FracLess(a, b) == a[1] * b[2] < b[1] * a[2]
FracLeq(a, b)  == a[1] * b[2] <= b[1] * a[2]
FracAbs(a) == <<Abs(a[1]), a[2]>>

----------------------------------------------------------------------------
(* RegularizationAlgorithms: processors/regularization.py *)

\* 'process_noise': 0.01 and 'measurement_noise': 0.1
process_noise     == <<1, 100>>
measurement_noise == <<1, 10>>
\* alpha: float = 0.3, and the two ends of its range
DefaultAlpha == <<3, 10>>
Alphas == {<<0, 1>>, DefaultAlpha, <<1, 1>>}

Measurements == {0, 1, 3}

\* keys of sensor_states and buffers: prefix and sensor number
Key(prefix, n) == [pre |-> prefix, i |-> n]

FloatRet(v) == [kind |-> "value", val |-> v]
RaisedIn(e) == [kind |-> e, val |-> <<0, 1>>]

\* Each filter below gives what it returns or raises (ret), and the dict entry
\* it leaves for its key (has: the key is present afterwards; st: its value).

\* (variant) the gain applied to the estimate, not to the innovation
kalman_gain_on_estimate(pe, kg, measurement) == FracMul(kg, measurement)

\* predicted_estimate + kalman_gain * (measurement - predicted_estimate)
kalman_update(pe, kg, measurement) ==
    FracAdd(pe, FracMul(kg, FracSub(measurement, pe)))

\* simple_kalman_filter(measurement, sensor_id), for sensor_states = S
simple_kalman_filter_step(S, k, x) ==
    IF k \notin DOMAIN S
    THEN [ret |-> FloatRet(FracOf(x)), has |-> TRUE,
          st |-> [kind |-> "kalman", estimate |-> FracOf(x), error |-> <<1, 1>>]]
    ELSE IF S[k].kind # "kalman"
    THEN \* state['estimate'] on a state that exponential_smoothing created
         [ret |-> RaisedIn("KeyError"), has |-> TRUE, st |-> S[k]]
    ELSE LET predicted_estimate == S[k].estimate
             predicted_error == FracAdd(S[k].error, process_noise)
             kalman_gain == FracDiv(predicted_error,
                                    FracAdd(predicted_error, measurement_noise))
             estimate == kalman_update(predicted_estimate, kalman_gain, FracOf(x))
             error == FracMul(FracSub(<<1, 1>>, kalman_gain), predicted_error)
         IN [ret |-> FloatRet(estimate), has |-> TRUE,
             st |-> [kind |-> "kalman", estimate |-> estimate, error |-> error]]

\* sum(buffer[i] * weights[i]), weights 1, 2, 3, ...
RECURSIVE WeightedSum(_, _)
WeightedSum(q, i) ==
    IF q = <<>> THEN 0 ELSE i * Head(q) + WeightedSum(Tail(q), i + 1)

\* weighted_moving_average(measurement, sensor_id), for buffers = B and
\* window_size = w
weighted_moving_average_step(B, k, x, w) ==
    IF k \notin DOMAIN B /\ w < 0
    THEN \* deque(maxlen = negative) raises ValueError
         [ret |-> RaisedIn("ValueError"), has |-> FALSE, st |-> <<>>]
    ELSE LET old == IF k \in DOMAIN B THEN B[k] ELSE <<>>
             new == DequeAppend(old, x, w)
             n == Len(new)
         IN [ret |-> IF n = 1 THEN FloatRet(FracOf(x))
                     ELSE IF n = 0 THEN RaisedIn("ZeroDivisionError")
                     ELSE FloatRet(Frac(WeightedSum(new, 1), (n * (n + 1)) \div 2)),
             has |-> TRUE, st |-> new]

\* (variant) alpha weighs the held value, not the measurement
exponential_blend_swapped(alpha, measurement, smoothed) ==
    FracAdd(FracMul(alpha, smoothed), FracMul(FracSub(<<1, 1>>, alpha), measurement))

\* alpha * measurement + (1 - alpha) * state['smoothed_value']
exponential_blend(alpha, measurement, smoothed) ==
    FracAdd(FracMul(alpha, measurement), FracMul(FracSub(<<1, 1>>, alpha), smoothed))

\* exponential_smoothing(measurement, sensor_id, alpha), for sensor_states = S
exponential_smoothing_step(S, k, x, alpha) ==
    IF k \notin DOMAIN S
    THEN [ret |-> FloatRet(FracOf(x)), has |-> TRUE,
          st |-> [kind |-> "exp", estimate |-> FracOf(x), error |-> <<0, 1>>]]
    ELSE IF S[k].kind # "exp"
    THEN \* state['smoothed_value'] on a state that simple_kalman_filter created
         [ret |-> RaisedIn("KeyError"), has |-> TRUE, st |-> S[k]]
    ELSE LET v == exponential_blend(alpha, FracOf(x), S[k].estimate)
         IN [ret |-> FloatRet(v), has |-> TRUE,
             st |-> [kind |-> "exp", estimate |-> v, error |-> <<0, 1>>]]

\* dict d after d[k] = v
Put(d, k, v) == [j \in DOMAIN d \cup {k} |-> IF j = k THEN v ELSE d[j]]

\* RegularizationAlgorithms(window_size = w): nothing is checked
RegularizationAlgorithms(w) ==
    /\ reg_made' = TRUE
    /\ reg_window' = w
    /\ sensor_states' = [k \in {} |-> 0]
    /\ buffers' = [k \in {} |-> <<>>]
    /\ reg_calls' = 0
    /\ reg_used' = {}
    /\ reg_call' = NoCall
    /\ reg_prev' = <<0, 1>>
    /\ reg_out' = NoReturn
    /\ reg_seed' = <<0, 1>>
    /\ reg_alphas' = {}
    /\ reg_session' = NewSession
    /\ UNCHANGED <<wsVars, imuVars, clsVars, extVars, csvVars, nrVars, frVars>>

\* (variant) the states are kept
reset_states_skipped(S, B) == [S |-> S, B |-> B]

\* self.sensor_states.clear(); self.buffers.clear()
reset_states_value(S, B) == [S |-> [k \in {} |-> 0], B |-> [k \in {} |-> <<>>]]

\* some sensor has a state or a buffer
HoldsState(S, B) == DOMAIN S # {} \/ DOMAIN B # {}

\* reset_states()
reset_states ==
    /\ reg_made
    /\ sensor_states' = reset_states_value(sensor_states, buffers).S
    /\ buffers' = reset_states_value(sensor_states, buffers).B
    /\ reg_calls' = 0
    /\ reg_used' = {}
    /\ reg_call' = [NoCall EXCEPT !.method = "reset_states"]
    /\ reg_seed' = <<0, 1>>
    /\ reg_alphas' = {}
    /\ reg_session' = [cleared |-> HoldsState(sensor_states, buffers), since |-> 0]
    /\ UNCHANGED <<reg_made, reg_window, reg_prev, reg_out>>
    /\ UNCHANGED <<wsVars, imuVars, clsVars, extVars, csvVars, nrVars, frVars>>

\* the estimate the sensor holds, if any
Held(S, k) == IF k \in DOMAIN S THEN S[k].estimate ELSE <<0, 1>>

simple_kalman_filter(x, k) ==
    /\ reg_made
    /\ reg_calls < MaxRows
    /\ LET r == simple_kalman_filter_step(sensor_states, k, x) IN
         /\ sensor_states' = Put(sensor_states, k, r.st)
         /\ reg_out' = r.ret
    /\ reg_prev' = Held(sensor_states, k)
    /\ reg_call' = [method |-> "kalman", x |-> x, alpha |-> <<0, 1>>]
    /\ reg_calls' = reg_calls + 1
    /\ reg_used' = reg_used \cup {"kalman"}
    /\ reg_session' = [reg_session EXCEPT !.since = @ + 1]
    /\ UNCHANGED <<reg_made, reg_window, buffers, reg_seed, reg_alphas>>
    /\ UNCHANGED <<wsVars, imuVars, clsVars, extVars, csvVars, nrVars, frVars>>

weighted_moving_average(x, k) ==
    /\ reg_made
    /\ reg_calls < MaxRows
    /\ LET r == weighted_moving_average_step(buffers, Key("wma_", k.i), x, reg_window) IN
         /\ buffers' = IF r.has THEN Put(buffers, Key("wma_", k.i), r.st) ELSE buffers
         /\ reg_out' = r.ret
    /\ reg_prev' = <<0, 1>>
    /\ reg_call' = [method |-> "weighted", x |-> x, alpha |-> <<0, 1>>]
    /\ reg_calls' = reg_calls + 1
    /\ reg_used' = reg_used \cup {"weighted"}
    /\ reg_session' = [reg_session EXCEPT !.since = @ + 1]
    /\ UNCHANGED <<reg_made, reg_window, sensor_states, reg_seed, reg_alphas>>
    /\ UNCHANGED <<wsVars, imuVars, clsVars, extVars, csvVars, nrVars, frVars>>

exponential_smoothing(x, k, alpha) ==
    /\ reg_made
    /\ reg_calls < MaxRows
    /\ LET r == exponential_smoothing_step(sensor_states, k, x, alpha) IN
         /\ sensor_states' = Put(sensor_states, k, r.st)
         /\ reg_out' = r.ret
    /\ reg_prev' = Held(sensor_states, k)
    /\ reg_call' = [method |-> "exponential", x |-> x, alpha |-> alpha]
    /\ reg_calls' = reg_calls + 1
    /\ reg_used' = reg_used \cup {"exponential"}
    /\ reg_seed' = IF k \in DOMAIN sensor_states THEN reg_seed ELSE FracOf(x)
    /\ reg_alphas' = reg_alphas \cup {alpha}
    /\ reg_session' = [reg_session EXCEPT !.since = @ + 1]
    /\ UNCHANGED <<reg_made, reg_window, buffers>>
    /\ UNCHANGED <<wsVars, imuVars, clsVars, extVars, csvVars, nrVars, frVars>>

----------------------------------------------------------------------------
(* Whole frames: NoiseReducer.apply_filters and the apply_* methods of        *)
(* RegularizationAlgorithms.  Sensor i of a frame has its own keys, so the   *)
(* steps of different sensors do not read each other's entries.              *)

Const(n, v) == [i \in 1..n |-> v]
\* zeros, with the value n in front: the mean is 1
Spike(n) == [i \in 1..n |-> IF i = 1 THEN n ELSE 0]
\* 1, -1, 1, -1, ...: mean 0, population variance 1
Balanced(n) == [i \in 1..n |-> IF i % 2 = 1 THEN 1 ELSE 0 - 1]
\* 3, -3, 3, -3, ...
Wide(n) == [i \in 1..n |-> IF i % 2 = 1 THEN 3 ELSE 0 - 3]

\* frames of 11 values (one hand) and 22 values (two hands)
SensorFrames ==
    {Const(SENSOR_COUNT, 1), Spike(SENSOR_COUNT), Balanced(2 * SENSOR_COUNT)}

\* the least sensor whose step raised, or n + 1
FirstBad(n, bad) ==
    IF \E i \in 1..n : bad[i]
    THEN CHOOSE i \in 1..n : bad[i] /\ \A j \in 1..(i - 1) : ~bad[j]
    ELSE n + 1

\* a dict after the steps of sensors 1..upto: step[i] is the step of sensor i
\* on key key[i]
PutAll(d, upto, key, step) ==
    [k \in DOMAIN d \cup {key[i] : i \in {j \in 1..upto : step[j].has}} |->
        IF \E i \in 1..upto : key[i] = k /\ step[i].has
        THEN step[CHOOSE i \in 1..upto : key[i] = k /\ step[i].has].st
        ELSE d[k]]

Min2(a, b) == IF a < b THEN a ELSE b

\* apply_single_algorithm(data, algorithm): what it returns or raises, and the
\* two dicts afterwards
apply_single_algorithm_value(S, B, data, algorithm, w) ==
    LET n == Len(data)
        skey == [i \in 1..n |-> Key("sensor_", i - 1)]
        bkey == [i \in 1..n |-> Key("wma_sensor_", i - 1)]
        step == [i \in 1..n |->
                   IF algorithm = "weighted"
                   THEN weighted_moving_average_step(B, bkey[i], data[i], w)
                   ELSE IF algorithm = "exponential"
                   THEN exponential_smoothing_step(S, skey[i], data[i], DefaultAlpha)
                   ELSE simple_kalman_filter_step(S, skey[i], data[i])]
        bad == [i \in 1..n |-> step[i].ret.kind # "value"]
        first == FirstBad(n, bad)
        upto == Min2(first, n)
    IN [ret |-> IF first <= n
                THEN [kind |-> step[first].ret.kind, list |-> <<>>]
                ELSE [kind |-> "value", list |-> [i \in 1..n |-> step[i].ret.val]],
        S |-> IF algorithm = "weighted" THEN S ELSE PutAll(S, upto, skey, step),
        B |-> IF algorithm = "weighted" THEN PutAll(B, upto, bkey, step) ELSE B]

\* the default algorithm_weights
DefaultWeights ==
    [kalman |-> <<1, 2>>, weighted |-> <<3, 10>>, exponential |-> <<1, 5>>]

\* `algorithm_weights[key] /= total_weight`
Normalized(W) ==
    LET total == FracAdd(W.kalman, FracAdd(W.weighted, W.exponential)) IN
    [kalman |-> FracDiv(W.kalman, total),
     weighted |-> FracDiv(W.weighted, total),
     exponential |-> FracDiv(W.exponential, total)]

\* apply_combined_regularization(data, algorithm_weights)
apply_combined_regularization_value(S, B, data, W, w) ==
    LET n == Len(data)
        NW == Normalized(W)
        kkey == [i \in 1..n |-> Key("kalman_sensor_", i - 1)]
        bkey == [i \in 1..n |-> Key("wma_weighted_sensor_", i - 1)]
        ekey == [i \in 1..n |-> Key("exp_sensor_", i - 1)]
        kstep == [i \in 1..n |-> simple_kalman_filter_step(S, kkey[i], data[i])]
        wstep == [i \in 1..n |-> weighted_moving_average_step(B, bkey[i], data[i], w)]
        estep == [i \in 1..n |->
                    exponential_smoothing_step(S, ekey[i], data[i], DefaultAlpha)]
        \* the Kalman and exponential keys of this method hold states of their
        \* own kind only: the weighted step alone can raise
        bad == [i \in 1..n |-> wstep[i].ret.kind # "value"]
        first == FirstBad(n, bad)
        upto == Min2(first, n)
    IN [ret |-> IF first <= n
                THEN [kind |-> wstep[first].ret.kind, list |-> <<>>]
                ELSE [kind |-> "value",
                      list |-> [i \in 1..n |->
                         FracAdd(FracMul(NW.kalman, kstep[i].ret.val),
                                 FracAdd(FracMul(NW.weighted, wstep[i].ret.val),
                                         FracMul(NW.exponential, estep[i].ret.val)))]],
        S |-> PutAll(PutAll(S, upto, kkey, kstep), first - 1, ekey, estep),
        B |-> PutAll(B, upto, bkey, wstep),
        W |-> NW]

\* sum((x - sum(data)/len(data))**2 for x in data) / len(data)
\*   = sum of (n x - sum(data))^2 / n^3
Variance(data) ==
    LET n == Len(data) IN
    Frac(SumSqDev(data, n, SumSeq(data)), n * n * n)

\* (variant) the two thresholds exchanged
AdaptiveWeightsSwapped(V) ==
    IF FracLess(<<1, 10>>, V)
    THEN [kalman |-> <<7, 10>>, weighted |-> <<1, 5>>, exponential |-> <<1, 10>>]
    ELSE IF FracLess(<<1, 1>>, V)
    THEN [kalman |-> <<3, 10>>, weighted |-> <<1, 2>>, exponential |-> <<1, 5>>]
    ELSE [kalman |-> <<1, 5>>, weighted |-> <<3, 10>>, exponential |-> <<1, 2>>]

\* the weights apply_adaptive_regularization chooses for variance V
AdaptiveWeights(V) ==
    IF FracLess(<<1, 1>>, V)
    THEN [kalman |-> <<7, 10>>, weighted |-> <<1, 5>>, exponential |-> <<1, 10>>]
    ELSE IF FracLess(<<1, 10>>, V)
    THEN [kalman |-> <<3, 10>>, weighted |-> <<1, 2>>, exponential |-> <<1, 5>>]
    ELSE [kalman |-> <<1, 5>>, weighted |-> <<3, 10>>, exponential |-> <<1, 2>>]

\* apply_adaptive_regularization(data)
apply_adaptive_regularization_value(S, B, data, w) ==
    IF Len(data) < 3
    THEN [ret |-> [kind |-> "value", list |-> AsFractions(data)],
          S |-> S, B |-> B, W |-> NoWeights]
    ELSE apply_combined_regularization_value(S, B, data,
                                             AdaptiveWeights(Variance(data)), w)

\* calls on a RegularizationAlgorithms instance
apply_single_algorithm(data, algorithm) ==
    /\ reg_made
    /\ fr_calls < MaxFrameCalls
    /\ \E r \in {apply_single_algorithm_value(sensor_states, buffers, data,
                                              algorithm, reg_window)} :
         /\ sensor_states' = r.S
         /\ buffers' = r.B
         /\ fr_out' = r.ret
    /\ fr_call' = [method |-> "single", data |-> data, opt |-> algorithm, sw |-> {}]
    /\ fr_weights' = NoWeights
    /\ fr_calls' = fr_calls + 1
    /\ reg_call' = [NoCall EXCEPT !.method = algorithm]
    /\ reg_used' = reg_used \cup {algorithm}
    /\ reg_session' = [reg_session EXCEPT !.since = @ + 1]
    /\ UNCHANGED <<reg_made, reg_window, reg_calls, reg_prev, reg_out, reg_seed, reg_alphas>>
    /\ UNCHANGED <<wsVars, imuVars, clsVars, extVars, csvVars, nrVars>>

apply_combined_regularization(data) ==
    /\ reg_made
    /\ fr_calls < MaxFrameCalls
    /\ \E r \in {apply_combined_regularization_value(sensor_states, buffers, data,
                                                     DefaultWeights, reg_window)} :
         /\ sensor_states' = r.S
         /\ buffers' = r.B
         /\ fr_out' = r.ret
         /\ fr_weights' = r.W
    /\ fr_call' = [method |-> "combined", data |-> data, opt |-> "none", sw |-> {}]
    /\ fr_calls' = fr_calls + 1
    /\ reg_call' = [NoCall EXCEPT !.method = "combined"]
    /\ reg_session' = [reg_session EXCEPT !.since = @ + 1]
    /\ UNCHANGED <<reg_made, reg_window, reg_calls, reg_used, reg_prev, reg_out,
                 reg_seed, reg_alphas>>
    /\ UNCHANGED <<wsVars, imuVars, clsVars, extVars, csvVars, nrVars>>

apply_adaptive_regularization(data) ==
    /\ reg_made
    /\ fr_calls < MaxFrameCalls
    /\ \E r \in {apply_adaptive_regularization_value(sensor_states, buffers, data,
                                                     reg_window)} :
         /\ sensor_states' = r.S
         /\ buffers' = r.B
         /\ fr_out' = r.ret
         /\ fr_weights' = r.W
    /\ fr_call' = [method |-> "adaptive", data |-> data, opt |-> "none", sw |-> {}]
    /\ fr_calls' = fr_calls + 1
    /\ reg_call' = [NoCall EXCEPT !.method = "adaptive"]
    /\ reg_session' = [reg_session EXCEPT !.since = @ + 1]
    /\ UNCHANGED <<reg_made, reg_window, reg_calls, reg_used, reg_prev, reg_out,
                 reg_seed, reg_alphas>>
    /\ UNCHANGED <<wsVars, imuVars, clsVars, extVars, csvVars, nrVars>>

\* sensor_values[:11]
FirstSensors(row) == SubSeq(row, 1, Min2(Len(row), SENSOR_COUNT))

\* round(val, 3), in thousandths
Round3(v) == (2000 * v[1] + v[2]) \div (2 * v[2])

\* the dispatch on `method` of process_csv_file for one row
RegularizeRow(S, B, data, method, w) ==
    IF method = "adaptive" THEN apply_adaptive_regularization_value(S, B, data, w)
    ELSE IF method = "combined"
    THEN apply_combined_regularization_value(S, B, data, DefaultWeights, w)
    ELSE LET r == apply_single_algorithm_value(S, B, data, method, w) IN
         [ret |-> r.ret, S |-> r.S, B |-> r.B, W |-> NoWeights]

\* the loop over the rows of the file: the rows written so far, the number
\* returned, and the state left behind; a row without sensor columns is
\* skipped, an exception ends the loop and makes the method return 0
RECURSIVE CsvRows(_, _, _, _, _, _)
CsvRows(S, B, rows, method, w, written) ==
    IF rows = <<>>
    THEN [ret |-> Len(written), written |-> written, S |-> S, B |-> B]
    ELSE IF Len(Head(rows)) < 1
    THEN CsvRows(S, B, Tail(rows), method, w, written)
    ELSE \* r is the outcome of this row
         CHOOSE out \in
           {IF r.ret.kind # "value"
            THEN [ret |-> 0, written |-> written, S |-> r.S, B |-> r.B]
            ELSE CsvRows(r.S, r.B, Tail(rows), method, w,
                         Append(written, [i \in 1..Len(r.ret.list) |->
                                             Round3(r.ret.list[i])]))
            : r \in {RegularizeRow(S, B, FirstSensors(Head(rows)), method, w)}} : TRUE

\* process_csv_file(input_path, output_path, method): exists tells whether
\* input_path names a file, rows are the sensor columns of its data rows
process_csv_file_value(S, B, exists, rows, method, w) ==
    IF ~exists
    THEN [ret |-> 0, written |-> <<>>, S |-> S, B |-> B]
    ELSE LET c == reset_states_value(S, B) IN
         CsvRows(c.S, c.B, rows, method, w, <<>>)

process_csv_file(exists, rows, method) ==
    /\ reg_made
    /\ fr_calls < MaxFrameCalls
    /\ \E r \in {process_csv_file_value(sensor_states, buffers, exists, rows, method,
                                          reg_window)} :
         /\ sensor_states' = r.S
         /\ buffers' = r.B
         /\ csv_out' = [ret |-> r.ret, written |-> r.written]
         /\ reg_session' = IF exists
                           THEN [cleared |-> HoldsState(sensor_states, buffers),
                                 since |-> r.ret]
                           ELSE reg_session
    /\ csv_call' = [exists |-> exists, rows |-> rows, method |-> method,
                    dirty |-> HoldsState(sensor_states, buffers)]
    /\ fr_call' = [NoFrameCall EXCEPT !.method = "process_csv_file"]
    /\ fr_out' = [kind |-> "none", list |-> <<>>]
    /\ fr_weights' = NoWeights
    /\ fr_calls' = fr_calls + 1
    /\ reg_call' = [NoCall EXCEPT !.method = "process_csv_file"]
    /\ reg_calls' = IF exists THEN 0 ELSE reg_calls
    /\ reg_used' = IF exists THEN {} ELSE reg_used
    /\ reg_seed' = IF exists THEN <<0, 1>> ELSE reg_seed
    /\ reg_alphas' = IF exists THEN {} ELSE reg_alphas
    /\ UNCHANGED <<reg_made, reg_window, reg_prev, reg_out>>
    /\ UNCHANGED <<wsVars, imuVars, clsVars, extVars, nrVars>>

\* the k-th smallest value of q
Kth(q, k) ==
    CHOOSE v \in {q[i] : i \in 1..Len(q)} :
        /\ Cardinality({i \in 1..Len(q) : q[i] < v}) < k
        /\ Cardinality({i \in 1..Len(q) : q[i] <= v}) >= k

\* statistics.median(list(buffer))
Median(q) ==
    LET n == Len(q) IN
    IF n = 0 THEN RaisedIn("StatisticsError")
    ELSE IF n % 2 = 1 THEN FloatRet(FracOf(Kth(q, (n + 1) \div 2)))
    ELSE FloatRet(Frac(Kth(q, n \div 2) + Kth(q, n \div 2 + 1), 2))

\* moving_average_window(data, id) of processors/noise_reducer.py, for
\* sensor_buffers = B and window_size = w
moving_average_window_step(B, k, x, w) ==
    IF k \notin DOMAIN B /\ w < 0
    THEN [ret |-> RaisedIn("ValueError"), has |-> FALSE, st |-> <<>>]
    ELSE LET old == IF k \in DOMAIN B THEN B[k] ELSE <<>>
             new == DequeAppend(old, x, w)
         IN [ret |-> IF new = <<>> THEN RaisedIn("ZeroDivisionError")
                     ELSE FloatRet(Frac(SumSeq(new), Len(new))),
             has |-> TRUE, st |-> new]

\* median_filter(data, id)
median_filter_step(B, k, x, w) ==
    IF k \notin DOMAIN B /\ w < 0
    THEN [ret |-> RaisedIn("ValueError"), has |-> FALSE, st |-> <<>>]
    ELSE LET old == IF k \in DOMAIN B THEN B[k] ELSE <<>>
             new == DequeAppend(old, x, w)
         IN [ret |-> Median(new), has |-> TRUE, st |-> new]

\* the switches of apply_filters that are on
Switches == SUBSET {"moving_avg", "median", "outlier"}

\* (variant) outliers removed from the frame, not replaced
OutlierStageDropping(data, sw) ==
    IF "outlier" \in sw
    THEN SelectSeq(data, LAMBDA v : ~ZScoreAbove(v, data, THRESHOLD))
    ELSE data

\* (variant) the outlier pass left out
OutlierStageSkipped(data, sw) == data

\* `filtered_data = self.outlier_detection(filtered_data)`.  The frames used
\* here have a whole-number mean, so that the buffers hold whole numbers.
OutlierStage(data, sw) ==
    IF "outlier" \in sw
    THEN LET r == outlier_detection_value(data).list IN
         [i \in 1..Len(r) |-> r[i][1] \div r[i][2]]
    ELSE data

\* apply_filters(data, apply_moving_avg, apply_median, apply_outlier)
apply_filters_value(B, data, sw, w) ==
    LET a == OutlierStage(data, sw)
        n == Len(a)
        ma == "moving_avg" \in sw
        key == [i \in 1..n |-> IF ma THEN Key("sensor_", i - 1)
                                     ELSE Key("median_sensor_", i - 1)]
        step == [i \in 1..n |->
                   IF ma THEN moving_average_window_step(B, key[i], a[i], w)
                         ELSE median_filter_step(B, key[i], a[i], w)]
        bad == [i \in 1..n |-> step[i].ret.kind # "value"]
        first == FirstBad(n, bad)
    IN IF sw \cap {"moving_avg", "median"} = {}
       THEN [ret |-> [kind |-> "value", list |-> AsFractions(a)], B |-> B]
       ELSE [ret |-> IF first <= n
                     THEN [kind |-> step[first].ret.kind, list |-> <<>>]
                     ELSE [kind |-> "value",
                           list |-> [i \in 1..n |-> step[i].ret.val]],
             B |-> PutAll(B, Min2(first, n), key, step)]

apply_filters(data, sw) ==
    /\ nr_module = "noise_reducer"
    /\ fr_calls < MaxFrameCalls
    /\ \E r \in {apply_filters_value(sensor_buffers, data, sw, window_size)} :
         /\ sensor_buffers' = r.B
         /\ fr_out' = r.ret
    /\ fr_call' = [method |-> "apply_filters", data |-> data, opt |-> "none",
                   sw |-> sw]
    /\ fr_weights' = NoWeights
    /\ fr_calls' = fr_calls + 1
    /\ UNCHANGED <<nr_module, window_size, ma_in, ma_run, ma_out, od_in, od_out>>
    /\ UNCHANGED <<wsVars, imuVars, clsVars, extVars, csvVars, regVars>>

----------------------------------------------------------------------------
WsNext ==
    \/ \E c \in Conns : \E h \in HostsOf(c) : Connect(c, h)
    \/ \E c \in Conns : PeerClose(c)
    \/ \E c \in Conns : RecvDisconnect(c)
    \/ \E c \in Conns, m \in Messages : Receive(c, m)
    \/ \E c \in Conns, env \in ClassifierEnv : Score(c, env)
    \/ \E c \in Conns : SendOk(c)
    \/ \E c \in Conns, o \in SendOutcomes : SendGone(c, o)
    \/ \E c \in Conns : Close(c)
    \/ Tick
    \/ \E n \in {9, 11} : HttpRequest(n)
    \/ HttpScore

ImuNext ==
    \/ calibrate_gyro
    \/ \E gz \in {0 - 1, 1} : compute_yaw(gz)
    \/ \E g \in GyroInputs : normalize_gyro(g)

\* One connection and the POST handler, with the frames that wait in the socket
BacklogNext ==
    \/ Connect("c1", "h1")
    \/ PeerClose("c1")
    \/ RecvDisconnect("c1")
    \/ Arrive("c1")
    \/ \E m \in Messages : ReceiveBuffered("c1", m)
    \/ \E env \in ClassifierEnv : Score("c1", env)
    \/ SendOk("c1")
    \/ \E o \in SendOutcomes : SendGone("c1", o)
    \/ Close("c1")
    \/ Tick
    \/ \E n \in {9, 11} : HttpRequest(n)
    \/ HttpScore

NrNext ==
    \/ \E m \in NrModules, w \in WindowSizes : NoiseReducer(m, w)
    \/ \E x \in Samples : moving_average_window(x, Key("sensor_", 0))
    \/ \E f \in Frames : outlier_detection(f)

\* one sensor of a RegularizationAlgorithms instance, called filter by filter
RegNext ==
    \/ \E w \in WindowSizes : RegularizationAlgorithms(w)
    \/ reset_states
    \/ \E x \in Measurements : simple_kalman_filter(x, Key("sensor_", 0))
    \/ \E x \in Measurements : weighted_moving_average(x, Key("sensor_", 0))
    \/ \E x \in Measurements, a \in Alphas : exponential_smoothing(x, Key("sensor_", 0), a)

\* frames of fewer than 3 values
ShortFrames == {<<1, 3>>}

\* one filter bank and one regularization engine, called frame by frame
Algorithms == {"kalman", "weighted", "exponential"}
FrameWindows == {0, MaxWindow}
FrameNext ==
    \/ \E w \in FrameWindows : NoiseReducer("noise_reducer", w)
    \/ \E w \in FrameWindows : RegularizationAlgorithms(w)
    \/ reset_states
    \/ \E f \in SensorFrames, sw \in Switches : apply_filters(f, sw)
    \/ \E f \in SensorFrames, a \in Algorithms : apply_single_algorithm(f, a)
    \/ \E f \in SensorFrames : apply_combined_regularization(f)
    \/ \E f \in SensorFrames \cup ShortFrames : apply_adaptive_regularization(f)

\* files: one row; a 22-column row, a row without sensor columns and a
\* third row
CsvFiles == {<<Spike(SENSOR_COUNT)>>,
             <<Balanced(2 * SENSOR_COUNT), <<>>, Const(SENSOR_COUNT, 3)>>}
CsvMethods == {"adaptive", "combined", "kalman", "weighted"}

\* one regularization engine, called frame by frame and file by file
CsvNext ==
    \/ \E w \in FrameWindows : RegularizationAlgorithms(w)
    \/ reset_states
    \/ \E f \in SensorFrames, a \in Algorithms : apply_single_algorithm(f, a)
    \/ \E f \in SensorFrames : apply_combined_regularization(f)
    \/ \E f \in SensorFrames \cup ShortFrames : apply_adaptive_regularization(f)
    \/ \E e \in BOOLEAN, f \in CsvFiles, m \in CsvMethods : process_csv_file(e, f, m)

----------------------------------------------------------------------------
(* The classifier entry points called directly: core/model.py *)

\* A hand is a list of some length, None, or a key the dict does not have
HandLengths == {0, 5, 10, SENSOR_COUNT, MaxValues}
Lists == {[kind |-> "list", len |-> n] : n \in HandLengths}
Hands == Lists \cup {[kind |-> "none", len |-> 0], MissingHand}

Result(status, message, invoked) ==
    [status |-> status, message |-> message, invoked |-> invoked]

\* (variant) predict_gesture without the test of len(values)
predict_gesture_unchecked(values, env) ==
    IF values.kind # "list" \/ env = "raise" \/ values.len # SENSOR_COUNT
    THEN Result("error", "Error loading model", values.kind = "list")
    ELSE IF env = "nofile" THEN Result("error", "Model file not found", FALSE)
    ELSE Result("success", "none", TRUE)

\* predict_gesture(values): len(None) raises TypeError inside the try, and
\* the except clause turns every Exception into a status "error"
predict_gesture_result(values, env) ==
    IF values.kind # "list" THEN Result("error", "Error loading model", FALSE)
    ELSE IF values.len # SENSOR_COUNT THEN Result("error", "Invalid sensor input", FALSE)
    ELSE IF env = "nofile" THEN Result("error", "Model file not found", FALSE)
    ELSE IF env = "raise" THEN Result("error", "Error loading model", TRUE)
    ELSE Result("success", "none", TRUE)

\* data.get(key, []) and len() of it: the length, or none when len() raises
LenOf(hand) ==
    IF hand.kind = "list" THEN hand.len
    ELSE IF hand.kind = "missing" THEN 0
    ELSE 0 - 1

\* predict_from_dual_hand_data(data): kind is "dict", or "ndarray" for the
\* array predict_routes passes, which has no get(); there is no test of the
\* model file here, a missing file makes the Interpreter raise
predict_from_dual_hand_data_result(kind, left, right, env) ==
    IF kind # "dict" THEN Result("error", "exception text", FALSE)
    ELSE IF LenOf(left) < 0 THEN Result("error", "exception text", FALSE)
    ELSE IF LenOf(left) # SENSOR_COUNT THEN Result("error", "Invalid sensor input", FALSE)
    ELSE IF LenOf(right) < 0 THEN Result("error", "exception text", FALSE)
    ELSE IF LenOf(right) # SENSOR_COUNT THEN Result("error", "Invalid sensor input", FALSE)
    ELSE IF env # "ok" THEN Result("error", "exception text", TRUE)
    ELSE Result("success", "none", TRUE)

PredictGesture(values, env) ==
    /\ cls_call' = [fn |-> "predict_gesture", kind |-> "values", left |-> values,
                    right |-> MissingHand, env |-> env]
    /\ cls_out' = predict_gesture_result(values, env)
    /\ UNCHANGED <<wsVars, imuVars, dspVars, extVars>>

PredictFromDualHandData(kind, left, right, env) ==
    /\ cls_call' = [fn |-> "predict_from_dual_hand_data", kind |-> kind,
                    left |-> left, right |-> right, env |-> env]
    /\ cls_out' = predict_from_dual_hand_data_result(kind, left, right, env)
    /\ UNCHANGED <<wsVars, imuVars, dspVars, extVars>>

ClsNext ==
    \/ \E v \in Hands \ {MissingHand}, env \in ClassifierEnv : PredictGesture(v, env)
    \/ \E l \in Hands, r \in Hands, env \in ClassifierEnv :
          PredictFromDualHandData("dict", l, r, env)
    \/ \E env \in ClassifierEnv :
          PredictFromDualHandData("ndarray", MissingHand, MissingHand, env)

SpecCls == Init /\ [][ClsNext]_vars

----------------------------------------------------------------------------
(* IMUNormalizer, the angles: processors/imu_normalizer.py *)

\* degrees that one unit of yaw_prev stands for (gz * dt of one call)
YawUnit == 270

\* self.alpha
ImuAlpha == <<3, 10>>

\* (variant) no clamping
ClampSkipped(v) == v

\* max(-180, min(180, v))
Clamp(v) ==
    LET low == IF FracLess(v, <<180, 1>>) THEN v ELSE <<180, 1>>
    IN IF FracLess(<<0 - 180, 1>>, low) THEN low ELSE <<0 - 180, 1>>

\* normalize(roll, pitch, yaw)
normalize_value(a) == [i \in 1..3 |-> FracMul(Clamp(a[i]), <<1, 180>>)]

\* smooth(roll, pitch, yaw): the new smoothed angles
smooth_value(sm, a) ==
    IF ~sm.set THEN a
    ELSE [i \in 1..3 |-> FracAdd(FracMul(ImuAlpha, a[i]),
                                  FracMul(FracSub(<<1, 1>>, ImuAlpha), sm.v[i]))]

\* what math.atan2 gives compute_roll_pitch: roll in [-180, 180], pitch in
\* [-90, 90]
Rolls   == {0 - 180, 180}
Pitches == {0 - 90, 90}

\* angles passed to normalize directly
Angles == {0 - 200, 0, 200}

\* normalize(roll, pitch, yaw), called directly
normalize(roll, pitch, yaw) ==
    /\ ang_call' = [method |-> "normalize",
                    v |-> <<FracOf(roll), FracOf(pitch), FracOf(yaw)>>]
    /\ ang_out' = normalize_value(<<FracOf(roll), FracOf(pitch), FracOf(yaw)>>)
    /\ UNCHANGED <<smoothed_rpy, ang_calls>>
    /\ UNCHANGED <<wsVars, imuVars, dspVars, clsVars, colVars, medVars, pwsVars>>

\* process(ax, ay, az, gz): compute_roll_pitch, compute_yaw, smooth, normalize
process(roll, pitch, gz) ==
    /\ ang_calls < MaxProcess
    /\ yaw_prev + gz >= 0 - MaxYaw
    /\ yaw_prev + gz <= MaxYaw
    /\ yaw_prev' = yaw_prev + gz
    /\ \E sm \in {smooth_value(smoothed_rpy, <<FracOf(roll), FracOf(pitch),
                                            FracOf(YawUnit * (yaw_prev + gz))>>)} :
         /\ smoothed_rpy' = [set |-> TRUE, v |-> sm]
         /\ ang_out' = normalize_value(sm)
    /\ ang_call' = [method |-> "process",
                    v |-> <<FracOf(roll), FracOf(pitch),
                            FracOf(YawUnit * (yaw_prev + gz))>>]
    /\ ang_calls' = ang_calls + 1
    /\ UNCHANGED <<gyro_len, gyro_calibrated, calls, gyro_stats, gyro_out>>
    /\ UNCHANGED <<wsVars, dspVars, clsVars, colVars, medVars, pwsVars>>

AngNext ==
    \/ \E r \in Angles, p \in Angles, y \in Angles : normalize(r, p, y)
    \/ \E r \in Rolls, p \in Pitches, gz \in {0 - 1, 1} : process(r, p, gz)

SpecAng == Init /\ [][AngNext]_vars

----------------------------------------------------------------------------
(* The window buffers of one filter bank and one regularization engine,
   called value by value *)

\* median_filter(data, id), on its own
median_filter(x, id) ==
    /\ nr_module = "noise_reducer"
    /\ med_calls < MaxRows
    /\ \E r \in {median_filter_step(sensor_buffers, Key("median_sensor_", id.i), x,
                                     window_size)} :
         /\ sensor_buffers' = IF r.has
                              THEN Put(sensor_buffers, Key("median_sensor_", id.i), r.st)
                              ELSE sensor_buffers
         /\ med_out' = r.ret
    /\ med_in' = x
    /\ med_calls' = med_calls + 1
    /\ UNCHANGED <<nr_module, window_size, ma_in, ma_run, ma_out, od_in, od_out>>
    /\ UNCHANGED <<wsVars, imuVars, clsVars, colVars, angVars, pwsVars, csvVars, regVars, frVars>>

\* window sizes and values of the buffer runs
BufWindows == {0 - 1, 0, MaxWindow - 1}
BufValues == {0, 1}

BufNext ==
    \/ \E w \in BufWindows : NoiseReducer("noise_reducer", w)
    \/ \E x \in BufValues : moving_average_window(x, Key("sensor_", 0))
    \/ \E x \in BufValues : median_filter(x, Key("sensor_", 0))
    \/ \E w \in BufWindows : RegularizationAlgorithms(w)
    \/ \E x \in BufValues : weighted_moving_average(x, Key("sensor_", 0))

SpecBuf == Init /\ [][BufNext]_vars

----------------------------------------------------------------------------
(* The /predict/ws/predict socket: routes/predict_routes.py *)

Obj(keys, f, a, g) == [kind |-> "object", keys |-> keys, flex |-> f, accel |-> a, gyro |-> g]

\* what a client can send: JSON objects with and without the three keys and
\* with right and wrong lengths, a JSON number, and text that is not JSON
PwsMessages ==
    {Obj({"flex", "accel", "gyro"}, 5, 3, 3),
     Obj({"flex", "accel", "gyro"}, 4, 3, 3),
     Obj({"flex", "accel", "gyro"}, 5, 3, 4),
     Obj({"flex", "accel"}, 5, 3, 0),
     Obj({}, 0, 0, 0),
     [kind |-> "number", keys |-> {}, flex |-> 0, accel |-> 0, gyro |-> 0],
     [kind |-> "text", keys |-> {}, flex |-> 0, accel |-> 0, gyro |-> 0]}

\* the keys of the dict predict_from_dual_hand_data returns.  Given an ndarray
\* (no .get) or hands of the wrong length it returns the error dict.
predict_from_dual_hand_data_keys(arg) ==
    IF arg.kind = "ndarray" \/ arg.left # TOTAL_SENSORS \/ arg.right # TOTAL_SENSORS
    THEN {"status", "message"}
    ELSE {"status", "left_prediction", "right_prediction", "confidence", "timestamp"}

\* one turn of the `while True` loop on message m: what is sent, and the
\* exception that leaves the loop
websocket_predict_turn(m) ==
    IF m.kind = "text" THEN [sent |-> <<>>, exc |-> "JSONDecodeError"]
    ELSE IF m.kind = "number" THEN [sent |-> <<>>, exc |-> "TypeError"]
    ELSE IF ~({"flex", "accel", "gyro"} \subseteq m.keys)
    THEN [sent |-> <<"Missing keys">>, exc |-> "none"]
    ELSE IF m.flex # 5 \/ m.accel # 3 \/ m.gyro # 3
    THEN [sent |-> <<"Invalid input lengths">>, exc |-> "none"]
    ELSE IF "prediction" \in predict_from_dual_hand_data_keys(
                                [kind |-> "ndarray", left |-> 0, right |-> 0])
    THEN [sent |-> <<"prediction">>, exc |-> "none"]
    ELSE \* prediction["prediction"]
         [sent |-> <<>>, exc |-> "KeyError"]

\* await websocket.accept()
PwsAccept ==
    /\ pws_pc = "init"
    /\ pws_pc' = "recv"
    /\ UNCHANGED <<pws_log, pws_sent, pws_exc>>
    /\ UNCHANGED <<wsVars, imuVars, dspVars, clsVars, colVars, angVars, medVars>>

\* receive_json returns m; the turn of the loop on it
websocket_predict(m) ==
    /\ pws_pc = "recv"
    /\ Len(pws_log) < MaxMessages
    /\ pws_log' = Append(pws_log, m)
    /\ \E t \in {websocket_predict_turn(m)} :
         /\ pws_sent' = pws_sent \o t.sent
         /\ pws_exc' = t.exc
         /\ pws_pc' = IF t.exc = "none" THEN "recv" ELSE "raised"
    /\ UNCHANGED <<wsVars, imuVars, dspVars, clsVars, colVars, angVars, medVars>>

\* receive_json raises WebSocketDisconnect: `except WebSocketDisconnect`
PwsDisconnect ==
    /\ pws_pc = "recv"
    /\ pws_pc' = "closed"
    /\ UNCHANGED <<pws_log, pws_sent, pws_exc>>
    /\ UNCHANGED <<wsVars, imuVars, dspVars, clsVars, colVars, angVars, medVars>>

PwsNext ==
    \/ PwsAccept
    \/ \E m \in PwsMessages : websocket_predict(m)
    \/ PwsDisconnect

SpecPws == Init /\ [][PwsNext]_vars

----------------------------------------------------------------------------
(* The stream collector: ingestion/collect_stream.py *)

\* What ser.readline() gives: nothing within the timeout, a line float()
\* rejects, a line of 10 numbers, a line of 11 numbers
SerialLines == {[kind |-> "empty", vals |-> <<>>],
                [kind |-> "garbage", vals |-> <<>>],
                [kind |-> "numbers", vals |-> Const(TOTAL_SENSORS - 1, 1)],
                [kind |-> "numbers", vals |-> Const(TOTAL_SENSORS, 1)],
                [kind |-> "numbers", vals |-> Spike(TOTAL_SENSORS)]}

NoVals == <<>>

\* read_sensor_data(ser): the 11 values, or None (here NoVals)
read_sensor_data(line) ==
    IF line.kind # "numbers" THEN NoVals
    ELSE IF Len(line.vals) # TOTAL_SENSORS THEN NoVals
    ELSE line.vals

\* "right": fingers_reg + acc + imu_angles + gyro_norm
PayloadRight(fingers_reg, acc, imu_angles, gyro_norm) ==
    fingers_reg \o acc \o imu_angles \o gyro_norm

\* apply_regularization(values): line 63 runs on the five flex values; line 64
\* reads reg.imu_norm, an attribute RegularizationAlgorithms does not have
apply_regularization_value(S, B, values, w) ==
    CHOOSE out \in
      {IF r.ret.kind # "value"
       THEN [kind |-> r.ret.kind, parts |-> <<>>, S |-> r.S, B |-> r.B]
       ELSE [kind |-> "AttributeError", parts |-> <<>>, S |-> r.S, B |-> r.B]
       : r \in {apply_adaptive_regularization_value(S, B, SubSeq(values, 1, 5), w)}} : TRUE

\* `if len(data_queue) >= MAX_QUEUE_SIZE: data_queue.pop(0)`, then append
Enqueue(q, payload) ==
    Append(IF Len(q) >= MAX_QUEUE_SIZE THEN Tail(q) ELSE q, payload)

\* main() up to the loop: connect_arduino, the empty queue, the sender task
MainStart(serial_ok) ==
    /\ col_pc = "init"
    /\ reg_made
    /\ reg_window = COLLECTOR_WINDOW
    /\ col_pc' = IF serial_ok THEN "running" ELSE "returned"
    /\ ws_pc' = IF serial_ok THEN "connecting" ELSE "none"
    /\ data_queue' = <<>>
    /\ UNCHANGED <<col_reads, raw_rows, col_exc, ws_sent>>
    /\ UNCHANGED <<wsVars, imuVars, dspVars, clsVars, angVars, medVars, pwsVars>>

\* one turn of main's loop: read a line; a frame is logged, regularized and
\* enqueued; an exception other than KeyboardInterrupt leaves main through
\* `finally`, which cancels the sender task
MainLoop(line) ==
    /\ col_pc = "running"
    /\ col_reads < MaxReads
    /\ col_reads' = col_reads + 1
    /\ LET vals == read_sensor_data(line) IN
       IF vals = NoVals
       THEN UNCHANGED <<col_pc, data_queue, raw_rows, col_exc, ws_pc, regVars>>
       ELSE \E r \in {apply_regularization_value(sensor_states, buffers, vals,
                                                  reg_window)} :
              /\ raw_rows' = Append(raw_rows, vals)
              /\ sensor_states' = r.S
              /\ buffers' = r.B
              /\ reg_session' = [reg_session EXCEPT !.since = @ + 1]
              /\ reg_call' = [NoCall EXCEPT !.method = "adaptive"]
              /\ UNCHANGED <<reg_made, reg_window, reg_calls, reg_used, reg_prev,
                             reg_out, reg_seed, reg_alphas>>
              /\ IF r.kind = "value"
                 THEN /\ data_queue' =
                           Enqueue(data_queue,
                                   [right |-> PayloadRight(r.parts[1], r.parts[2],
                                                           r.parts[3], r.parts[4]),
                                    timestamp |-> col_reads])
                      /\ UNCHANGED <<col_pc, col_exc, ws_pc>>
                 ELSE /\ col_pc' = "raised"
                      /\ col_exc' = r.kind
                      /\ ws_pc' = "cancelled"
                      /\ UNCHANGED data_queue
    /\ UNCHANGED ws_sent
    /\ UNCHANGED <<wsVars, imuVars, nrVars, frVars, csvVars, clsVars, angVars, medVars, pwsVars>>

\* send_to_backend: websockets.connect succeeds, or raises and the task
\* sleeps 2 s before the next attempt
WsConnect(ok) ==
    /\ ws_pc \in {"connecting", "backoff"}
    /\ ws_pc' = IF ws_pc = "backoff" THEN "connecting"
                ELSE IF ok THEN "connected" ELSE "backoff"
    /\ UNCHANGED <<col_pc, col_reads, data_queue, raw_rows, col_exc, ws_sent>>
    /\ UNCHANGED <<wsVars, imuVars, dspVars, clsVars, angVars, medVars, pwsVars>>

\* one turn of the inner loop: nothing queued, or the head is taken and sent;
\* a failed send drops that payload and reconnects
WsLoop(send_ok) ==
    /\ ws_pc = "connected"
    /\ IF data_queue = <<>>
       THEN UNCHANGED <<data_queue, ws_sent, ws_pc>>
       ELSE /\ data_queue' = Tail(data_queue)
            /\ ws_sent' = IF send_ok THEN Append(ws_sent, Head(data_queue)) ELSE ws_sent
            /\ ws_pc' = IF send_ok THEN "connected" ELSE "connecting"
    /\ UNCHANGED <<col_pc, col_reads, raw_rows, col_exc>>
    /\ UNCHANGED <<wsVars, imuVars, dspVars, clsVars, angVars, medVars, pwsVars>>

ColNext ==
    \/ ~reg_made /\ RegularizationAlgorithms(COLLECTOR_WINDOW)
    \/ \E ok \in BOOLEAN : MainStart(ok)
    \/ \E line \in SerialLines : MainLoop(line)
    \/ \E ok \in BOOLEAN : WsConnect(ok)
    \/ \E ok \in BOOLEAN : WsLoop(ok)

SpecCol == Init /\ [][ColNext]_vars
Spec    == Init /\ [][WsNext]_vars
SpecFrames == Init /\ [][FrameNext]_vars
SpecCsv == Init /\ [][CsvNext]_vars
SpecReg == Init /\ [][RegNext]_vars
SpecNr  == Init /\ [][NrNext]_vars
SpecBacklog == Init /\ [][BacklogNext]_vars
SpecImu == Init /\ [][ImuNext]_vars

----------------------------------------------------------------------------
(* Properties *)

\* frames the classifier is working on
Scoring == {c \in Conns : pc[c] = "scoring"}
             \cup (IF httpPc = "scoring" THEN {"http"} ELSE {})

\* a message that is not valid JSON, not an object, without a hand, or of wrong arity
MalformedInput(m) == ~m.json \/ ~m.obj \/ m.hand = "none" \/ WrongArity(m)

\* connection c is scoring a frame or sending the response of a scored frame
Scored(c) ==
    \/ pc[c] = "scoring"
    \/ pc[c] = "send" /\ (resp[c] = "success" \/ last[c] = "classifier_err")

\* C1 (as stated), for a client that is alone on the server and whose
\* connections follow one another: whenever a frame of the client goes to the
\* classifier, its previous frame that went to the classifier was taken up at
\* least RATE_LIMIT_SECONDS earlier, whatever connects and disconnects lie
\* between the two.
C1_OnePerIntervalAlways ==
    [][\A c \in Conns :
          (pc[c] = "recv" /\ pc'[c] = "scoring"
             /\ \A d \in Conns \ {c} : pc[d] = "idle") =>
             \/ lastScored[client_ip(c)] = NoEntry
             \/ now - lastScored[client_ip(c)] >= RATE_LIMIT_SECONDS]_vars

\* C1 (amended): the same, unless the host's entry was deleted by a disconnect
\* since the previous scored frame; and a rate-limited frame is dropped with
\* no response: the handler goes back to receive_text, nothing is sent,
\* nothing is scored, the entry is not refreshed.
C1_OnePerIntervalUnlessPurged ==
    [][\A c \in Conns :
          /\ (pc[c] = "recv" /\ pc'[c] = "scoring") =>
                \/ lastScored[client_ip(c)] = NoEntry
                \/ now - lastScored[client_ip(c)] >= RATE_LIMIT_SECONDS
                \/ purgedSince[client_ip(c)]
          /\ \A m \in Messages :
                (Receive(c, m) /\ rate_limiter[client_ip(c)] # NoEntry
                   /\ now - rate_limiter[client_ip(c)] < RATE_LIMIT_SECONDS) =>
                   /\ pc'[c] = "recv"
                   /\ resp'[c] = "none"
                   /\ rate_limiter' = rate_limiter
                   /\ lastScored' = lastScored]_vars

\* C1 witness: a frame of a host was dropped while an earlier frame of that
\* host had been scored and no disconnect had deleted the entry.
C1_Witness ==
    \E c \in Conns :
        /\ pc[c] = "recv"
        /\ last[c] = "dropped"
        /\ lastScored[host[c]] # NoEntry
        /\ ~purgedSince[host[c]]

\* C2 (as stated): every malformed message that receive_text returns is
\* answered with an error envelope and the handler stays in its loop.
C2_MalformedGetsEnvelope ==
    [][\A c \in Conns, m \in Messages :
          (MalformedInput(m) /\ Receive(c, m)) =>
             (pc'[c] = "send" /\ resp'[c] = "error")]_vars

\* C3 (as stated): on a connection whose latest frame was a wrong-arity frame
\* answered with an error envelope, a valid 11-value frame goes to the
\* classifier, whatever the time since.
C3_UsableAfterArityError ==
    [][\A c \in Conns :
          (pc[c] = "recv" /\ last[c] = "arity_err" /\ Receive(c, Nested11)) =>
             pc'[c] = "scoring"]_vars

\* C4 (as stated): a message {"right": [11 floats], "timestamp": t} that is
\* not rate limited is accepted by the decoder and goes to the classifier; it
\* is never answered with an error envelope.
C4_StreamingShapeAccepted ==
    [][\A c \in Conns :
          (last[c] = "none" /\ ~RateLimited(client_ip(c), now)
             /\ Receive(c, Flat11)) =>
             (pc'[c] = "scoring" /\ resp'[c] # "error")]_vars

\* C5: at most one frame is being scored at any instant, over the socket
\* handlers and the POST /predict/ handler.
C5_SingleFlight == Cardinality(Scoring) <= 1

\* C5 witness: a frame is being scored while another connection is open with
\* its client present, so that its next frame has to wait.
C5_Witness ==
    \E c \in Conns, d \in Conns :
        c # d /\ pc[c] = "scoring" /\ pc[d] = "recv" /\ peer[d]

\* C6 (as stated): a frame goes to the classifier only when it is the latest
\* frame of its client: no frame that the client sent at least
\* RATE_LIMIT_SECONDS after it, and which the rate limit therefore lets
\* through as well, is waiting behind it.
C6_StaleFrameNotScored ==
    [][\A c \in Conns :
          (pc[c] = "recv" /\ pc'[c] = "scoring" /\ buffer[c] # <<>>) =>
             \A i \in DOMAIN buffer'[c] :
                 buffer'[c][i] - Head(buffer[c]) < RATE_LIMIT_SECONDS]_vars

\* C7 (as stated): once every handler of a client has terminated, the
\* rate-limiter map holds no entry for that client.
C7_PurgedOnTermination ==
    \A c \in Conns :
        (pc[c] = "closed"
           /\ \A d \in Conns : host[d] = host[c] => pc[d] \in {"idle", "closed"})
        => rate_limiter[host[c]] = NoEntry

C9_OwnEntryOnly ==
    [][\A c \in Conns, m \in Messages :
          (Receive(c, m) /\ RateLimited(client_ip(c), now)) =>
             latest[client_ip(c)] = c]_vars

\* C10: calibrated is false before the 100th calibrate_gyro call and true
\* from the 100th call on, whatever else the estimator does.
C10_CalibratedFromHundredth ==
    gyro_calibrated <=> calls >= calibration_samples_needed

\* C10 witness: the state right after the 100th call.
C10_Witness ==
    gyro_calibrated /\ calls = calibration_samples_needed /\ yaw_prev # 0

\* C11: a normalize_gyro call made before the calibration is complete returns
\* its argument unchanged, and a normalize_gyro call made in any state changes
\* no attribute of the estimator.
C11_IdentityBeforeCalibration ==
    [][\A g \in GyroInputs :
          normalize_gyro(g) =>
             /\ ~gyro_calibrated => gyro_out' = <<g, 1>>
             /\ UNCHANGED <<gyro_len, gyro_calibrated, yaw_prev, calls,
                            gyro_stats>>]_vars

\* C11 witness: a call with a non-zero reading has returned it unchanged one
\* sample before the calibration completes.
C11_Witness ==
    /\ ~gyro_calibrated
    /\ gyro_len = calibration_samples_needed - 1
    /\ gyro_out = <<2, 1>>

\* C12 (as stated): for every moving-average filter with a valid window, once
\* the latest window_size calls on a sensor all passed the same value, the
\* latest call returned that value.
C12_ConstantConverges ==
    (nr_module # "none" /\ window_size >= 1 /\ ma_run >= window_size) =>
        (ma_out.kind = "value" /\ ma_out.num = ma_in * ma_out.den)

\* the frame has two different values
Discriminates(f) == \E i, j \in 1..Len(f) : f[i] # f[j]

\* C13: outlier_detection returns its argument unchanged, and raises nothing,
\* on a frame of fewer than 2 values, on a frame whose values are all equal,
\* and on a frame none of whose values has a z-score above the threshold; on
\* such a frame a second application returns the same frame again.
C13_OutlierNoOp ==
    LET f == od_in
        quiet == \A i \in 1..Len(f) :
                    4 * SumSqDev(f, Len(f), SumSeq(f))
                      >= (Len(f) * f[i] - SumSeq(f)) * (Len(f) * f[i] - SumSeq(f))
                           * (Len(f) - 1)
    IN  od_out.kind # "none" =>
          /\ od_out.kind = "value"
          /\ (Len(f) < 2 \/ ~Discriminates(f) \/ quiet) =>
                /\ od_out.list = AsFractions(f)
                /\ outlier_detection_value(f) = od_out

\* C13 witness: a call on a frame of full length with different values, none
\* of them an outlier, has returned the frame unchanged.
C13_Witness ==
    /\ Len(od_in) = MaxFrame
    /\ Discriminates(od_in)
    /\ od_out.kind = "value"
    /\ od_out.list = AsFractions(od_in)

\* a step that is a call on a frame of 11 or 22 values
SensorFrameCall ==
    /\ fr_calls' = fr_calls + 1
    /\ Len(fr_call'.data) \in {SENSOR_COUNT, 2 * SENSOR_COUNT}

SameLength ==
    fr_out.kind = "value" /\ Len(fr_out.list) = Len(fr_call.data)

\* C14 (as stated): every call of apply_filters, apply_single_algorithm,
\* apply_combined_regularization or apply_adaptive_regularization on a frame
\* of 11 or 22 values returns a list of as many values.
C14_LengthPreservedAlways == [][SensorFrameCall => SameLength']_vars

\* C14 (amended): the same, for objects constructed with window_size >= 1,
\* and for a regularization engine on which the Kalman filter and the
\* exponential smoothing have not both been applied to plain sensor ids
\* since the construction or the last reset.
C14_LengthPreserved ==
    [][(/\ SensorFrameCall
        /\ fr_call'.method = "apply_filters" => window_size >= 1
        /\ fr_call'.method # "apply_filters" =>
              (reg_window >= 1 /\ ~({"kalman", "exponential"} \subseteq reg_used')))
       => SameLength']_vars

\* C14 witness: the second call of a session, with moving average and outlier
\* replacement on, on a frame of 22 values, returned 22 values.
C14_Witness ==
    /\ fr_calls = MaxFrameCalls
    /\ fr_call.method = "apply_filters"
    /\ fr_call.sw = {"moving_avg", "outlier"}
    /\ window_size >= 1
    /\ Len(fr_call.data) = 2 * SENSOR_COUNT
    /\ SameLength

\* a call of simple_kalman_filter that updates a state an earlier call of it
\* seeded: the estimate held before, the measurement, and the estimate returned
KalmanUpdateCall ==
    /\ reg_calls' = reg_calls + 1
    /\ reg_call'.method = "kalman"
    /\ Key("sensor_", 0) \in DOMAIN sensor_states
    /\ sensor_states[Key("sensor_", 0)].kind = "kalman"

\* C15: a Kalman update never moves the estimate away from the measurement
\* and never past it: with d the signed distance estimate - measurement
\* before the call and d' after it, |d'| <= |d| and d' has the sign of d;
\* when d is not zero, 0 < |d'| < |d| (the gain is strictly between 0 and 1).
\* For a constant measurement sequence this is monotone convergence.
C15_KalmanMonotone ==
    [][KalmanUpdateCall =>
         LET c  == FracOf(reg_call'.x)
             d0 == FracSub(reg_prev', c)
             d1 == FracSub(reg_out'.val, c)
         IN /\ reg_out'.kind = "value"
            /\ FracLeq(FracAbs(d1), FracAbs(d0))
            /\ d1[1] * d0[1] >= 0
            /\ d0[1] # 0 => (d1[1] # 0 /\ FracLess(FracAbs(d1), FracAbs(d0)))]_vars

\* C15 witness: seeded with 0, then fed 3 twice: the second update starts
\* from 101/37 and returns an estimate strictly between that and 3
C15_Witness ==
    /\ reg_calls = MaxRows
    /\ reg_used = {"kalman"}
    /\ reg_call.method = "kalman"
    /\ reg_call.x = 3
    /\ reg_prev = <<101, 37>>
    /\ reg_out.kind = "value"
    /\ FracLess(reg_prev, reg_out.val)
    /\ FracLess(reg_out.val, <<3, 1>>)

\* the latest call is a call of exponential_smoothing on a sensor that only
\* exponential_smoothing has kept state for in this session
ExponentialCalled ==
    /\ reg_call.method = "exponential"
    /\ "kalman" \notin reg_used

AdaptiveCall ==
    /\ fr_calls' = fr_calls + 1
    /\ fr_call'.method = "adaptive"

\* C17: apply_adaptive_regularization blends with the weights its variance
\* thresholds name: population variance V > 1 gives (0.7, 0.2, 0.1),
\* 0.1 < V <= 1 gives (0.3, 0.5, 0.2), V <= 0.1 gives (0.2, 0.3, 0.5); a
\* frame of fewer than 3 values is returned as it is and no state is touched.
C17_AdaptiveByVariance ==
    [][AdaptiveCall =>
         LET data == fr_call'.data
             V == Variance(data)
         IN IF Len(data) < 3
            THEN /\ fr_out' = [kind |-> "value", list |-> AsFractions(data)]
                 /\ UNCHANGED <<sensor_states, buffers>>
            ELSE /\ FracLess(<<1, 1>>, V) =>
                      fr_weights' = [kalman |-> <<7, 10>>, weighted |-> <<1, 5>>,
                                     exponential |-> <<1, 10>>]
                 /\ (FracLess(<<1, 10>>, V) /\ FracLeq(V, <<1, 1>>)) =>
                      fr_weights' = [kalman |-> <<3, 10>>, weighted |-> <<1, 2>>,
                                     exponential |-> <<1, 5>>]
                 /\ FracLeq(V, <<1, 10>>) =>
                      fr_weights' = [kalman |-> <<1, 5>>, weighted |-> <<3, 10>>,
                                     exponential |-> <<1, 2>>]]_vars

\* C17 witness: a second frame whose variance is exactly 1 was blended with
\* (0.3, 0.5, 0.2) and returned
C17_Witness ==
    /\ fr_calls = MaxFrameCalls
    /\ fr_call.method = "adaptive"
    /\ fr_call.data = Balanced(2 * SENSOR_COUNT)
    /\ Variance(fr_call.data) = <<1, 1>>
    /\ fr_weights = [kalman |-> <<3, 10>>, weighted |-> <<1, 2>>, exponential |-> <<1, 5>>]
    /\ fr_out.kind = "value"

\* the first call of a filter in a session, on a whole frame
FirstCallOfSession ==
    /\ reg_session.since = 0
    /\ fr_calls' = fr_calls + 1
    /\ fr_call'.method = "single"

RawReturned == fr_out' = [kind |-> "value", list |-> AsFractions(fr_call'.data)]

CsvCall ==
    /\ fr_calls' = fr_calls + 1
    /\ fr_call'.method = "process_csv_file"

\* what process_csv_file writes and returns on an instance just constructed
\* with the same window_size
CsvOnNewInstance ==
    \E r \in {process_csv_file_value([k \in {} |-> 0], [k \in {} |-> <<>>],
                                      csv_call'.exists, csv_call'.rows,
                                      csv_call'.method, reg_window)} :
        csv_out' = [ret |-> r.ret, written |-> r.written]

\* C18 as stated: in a new session (after construction or reset_states) the
\* first call of each filter returns the raw measurements, and
\* process_csv_file writes and returns what it would on a new instance
C18_ResetIndependentAlways ==
    [][(FirstCallOfSession => RawReturned) /\ (CsvCall => CsvOnNewInstance)]_vars

\* C18, for window_size >= 1: in a new session the first call of each
\* filter returns the raw measurements; for every window_size,
\* process_csv_file writes and returns what it would on a new instance
C18_ResetIndependent ==
    [][/\ (FirstCallOfSession /\ reg_window >= 1) => RawReturned
       /\ CsvCall => CsvOnNewInstance]_vars

\* C18 witness: process_csv_file on an instance that held state from an
\* earlier call wrote both rows of the file
C18_Witness ==
    /\ fr_call.method = "process_csv_file"
    /\ csv_call.dirty
    /\ csv_call.exists
    /\ csv_call.method = "kalman"
    /\ csv_out.ret = 2
    /\ Len(csv_out.written) = 2
    /\ reg_session.cleared

\* the call passed lists, and some list it looked at has not 11 values
WrongLength ==
    /\ cls_call.kind \in {"values", "dict"}
    /\ \/ /\ cls_call.left.kind \in {"list", "missing"}
          /\ LenOf(cls_call.left) # SENSOR_COUNT
       \/ /\ cls_call.fn = "predict_from_dual_hand_data"
          /\ cls_call.left.kind = "list"
          /\ cls_call.left.len = SENSOR_COUNT
          /\ cls_call.right.kind \in {"list", "missing"}
          /\ LenOf(cls_call.right) # SENSOR_COUNT

\* the call passed exactly 11 values (per hand)
ElevenValues ==
    /\ cls_call.kind \in {"values", "dict"}
    /\ cls_call.left = [kind |-> "list", len |-> SENSOR_COUNT]
    /\ cls_call.fn = "predict_from_dual_hand_data" =>
          cls_call.right = [kind |-> "list", len |-> SENSOR_COUNT]

Called == cls_call.fn # "none"

NeverRaises == cls_out.status \in {"success", "error"}

Rejected ==
    cls_out = [status |-> "error", message |-> "Invalid sensor input", invoked |-> FALSE]

\* C19 as stated: every input other than exactly 11 values (per hand) is
\* answered with the 'Invalid sensor input' error
C19_EveryInputRejected ==
    Called => /\ NeverRaises
              /\ ~ElevenValues => Rejected
              /\ (ElevenValues /\ cls_call.env # "ok") => cls_out.status = "error"

\* C19, for lists: the entry points never raise; a list (or a missing hand)
\* of other than 11 values is answered with the 'Invalid sensor input' error
\* without the model being invoked; a model that fails to load or run is
\* answered with status 'error'
C19_NeverRaises ==
    Called => /\ NeverRaises
              /\ WrongLength => Rejected
              /\ (ElevenValues /\ cls_call.env # "ok") => cls_out.status = "error"

\* C19 witness: a left hand of 11 values and a right hand of 10, rejected
C19_Witness ==
    /\ cls_call.fn = "predict_from_dual_hand_data"
    /\ cls_call.left = [kind |-> "list", len |-> SENSOR_COUNT]
    /\ cls_call.right = [kind |-> "list", len |-> 10]
    /\ cls_call.env = "ok"
    /\ Rejected

\* the window_size of the object the call of this step was made on
WindowOfCall ==
    IF fr_call'.method = "apply_filters" THEN window_size ELSE reg_window

\* C20: no frame is filtered under a window_size <= 0: a call on a whole
\* frame (with some filter switched on) that returns a filtered frame was
\* made on an object whose window_size is at least 1 (such an object would have been rejected when
\* it was constructed)
C20_NoFilteringUnderBadWindow ==
    [][(/\ SensorFrameCall
        /\ fr_out'.kind = "value"
        /\ fr_call'.method = "apply_filters" => fr_call'.sw # {})
       => WindowOfCall >= 1]_vars

\* a turn of main's loop that read a frame of 11 values
FrameRead == col_reads' = col_reads + 1 /\ Len(raw_rows') = Len(raw_rows) + 1

\* C21: every frame of 11 values that the collector reads is enqueued as a
\* payload that carries exactly 11 values under "right"
C21_ElevenValuesEnqueued ==
    [][FrameRead =>
         /\ data_queue' # <<>>
         /\ Len(data_queue'[Len(data_queue')].right) = TOTAL_SENSORS]_vars

InUnit(v) == FracLeq(<<0 - 1, 1>>, v) /\ FracLeq(v, <<1, 1>>)

\* C22: every value normalize and process return lies in [-1, 1], however
\* far the yaw accumulator has drifted, and normalize(200, -200, 0) is
\* (1, -1, 0)
C22_AnglesBounded ==
    /\ \A i \in 1..3 : InUnit(ang_out[i])
    /\ (ang_call = [method |-> "normalize", v |-> <<<<200, 1>>, <<0 - 200, 1>>, <<0, 1>>>>])
          => ang_out = <<<<1, 1>>, <<0 - 1, 1>>, <<0, 1>>>>

\* C22 witness: a process call with the yaw accumulator beyond 180 degrees and
\* a smoothed yaw beyond 180 degrees returned yaw 1
C22_Witness ==
    /\ ang_call.method = "process"
    /\ ang_calls = MaxProcess
    /\ YawUnit * yaw_prev > 180
    /\ FracLess(<<180, 1>>, smoothed_rpy.v[3])
    /\ ang_out[3] = <<1, 1>>

\* C23: once gyro_calibrated is true, a further calibrate_gyro call leaves
\* gyro_stats unchanged, and normalize_gyro of a fixed input returns the same
\* value before and after the call
C23_CalibrationOneShot ==
    [][(gyro_calibrated /\ gyro_len' = gyro_len + 1)
          => /\ gyro_stats' = gyro_stats
             /\ \A g \in GyroInputs :
                  normalize_gyro_value(g)' = normalize_gyro_value(g)]_vars

\* C24: a Kalman or exponential call on a sensor for which the other of the
\* two algorithms holds a state, with no reset in between, returns a value
\* and leaves that other state as it was
C24_StatePerAlgorithm ==
    [][(/\ reg_calls' = reg_calls + 1
        /\ reg_call'.method \in {"kalman", "exponential"}
        /\ reg_used \cap {"kalman", "exponential"} # {}
        /\ reg_call'.method \notin reg_used)
          => /\ reg_out'.kind = "value"
             /\ \E k \in DOMAIN sensor_states' :
                  sensor_states'[k].kind = IF reg_call'.method = "kalman"
                                           THEN "kalman" ELSE "exp"]_vars

\* the last w values of q, in order
LastN(q, w) == IF Len(q) <= w THEN q ELSE SubSeq(q, Len(q) - w + 1, Len(q))

\* buffer `new` is buffer `old` (empty when the key is new) untouched, or
\* after value x arrived: the most recent w values in arrival order
RingAfter(D, E, k, x, w) ==
    /\ Len(E[k]) <= w
    /\ \/ k \in DOMAIN D /\ E[k] = D[k]
       \/ E[k] = LastN(Append(IF k \in DOMAIN D THEN D[k] ELSE <<>>, x), w)

\* C25: every window buffer (moving average, median, weighted moving average)
\* holds at most window_size values, and a call leaves it holding the most
\* recently appended values in arrival order, the oldest evicted on overflow
C25_RingBuffers ==
    [][/\ \A k \in DOMAIN sensor_buffers' :
            RingAfter(IF nr_module' = nr_module /\ window_size' = window_size
                      THEN sensor_buffers ELSE <<>>,
                      sensor_buffers', k,
                      IF k.pre = "sensor_" THEN ma_in' ELSE med_in', window_size')
       /\ \A k \in DOMAIN buffers' :
            RingAfter(buffers, buffers', k, reg_call'.x, reg_window')]_vars

\* C25 witness: each of the three buffers is full after more calls than the
\* window holds, so each has evicted its oldest value
C25_Witness ==
    /\ window_size = MaxWindow - 1
    /\ reg_window = MaxWindow - 1
    /\ ma_run = MaxWindow
    /\ med_calls = MaxRows
    /\ reg_calls = MaxRows
    /\ Key("sensor_", 0) \in DOMAIN sensor_buffers
    /\ Key("median_sensor_", 0) \in DOMAIN sensor_buffers
    /\ Key("wma_", 0) \in DOMAIN buffers
    /\ Len(sensor_buffers[Key("sensor_", 0)]) = window_size
    /\ sensor_buffers[Key("median_sensor_", 0)] = <<0, 1>>
    /\ buffers[Key("wma_", 0)] = <<1, 0>>

\* an apply_filters call with moving average or median on
SmoothingCall ==
    /\ fr_calls' = fr_calls + 1
    /\ fr_call'.method = "apply_filters"
    /\ fr_call'.sw \cap {"moving_avg", "median"} # {}

\* the buffer of key k holds a value
Holds(B, k) == k \in DOMAIN B /\ B[k] # <<>>

\* the buffer apply_filters appends sensor i's value to
SmoothKey(sw, i) ==
    IF "moving_avg" \in sw THEN Key("sensor_", i - 1) ELSE Key("median_sensor_", i - 1)

\* value i of the frame is an outlier of the frame
Flagged(data, i) == Len(data) >= 2 /\ ZScoreAbove(data[i], data, THRESHOLD)

LastOf(q) == q[Len(q)]

\* C26 as stated: in every apply_filters call that smooths, the raw value of
\* a spike is not what the sensor's smoothing buffer receives
C26_SpikeNeverBuffered ==
    [][SmoothingCall =>
          \A i \in 1..Len(fr_call'.data) :
             (/\ Flagged(fr_call'.data, i)
              /\ Holds(sensor_buffers', SmoothKey(fr_call'.sw, i))) =>
                LastOf(sensor_buffers'[SmoothKey(fr_call'.sw, i)]) # fr_call'.data[i]]_vars

\* C26: in an apply_filters call with apply_outlier on, the outlier pass runs
\* before the smoothing: a sensor's smoothing buffer receives the frame mean
\* where the value is an outlier of the frame, and the value itself otherwise
C26_OutlierBeforeSmoothing ==
    [][(SmoothingCall /\ "outlier" \in fr_call'.sw) =>
          \A i \in 1..Len(fr_call'.data) :
             Holds(sensor_buffers', SmoothKey(fr_call'.sw, i)) =>
             LastOf(sensor_buffers'[SmoothKey(fr_call'.sw, i)])
                = IF Flagged(fr_call'.data, i)
                  THEN SumSeq(fr_call'.data) \div Len(fr_call'.data)
                  ELSE fr_call'.data[i]]_vars

\* C26 witness: a frame with one spike went through the outlier pass and the
\* median filter, and the spiked sensor's buffer received the frame mean
C26_Witness ==
    /\ fr_call.method = "apply_filters"
    /\ fr_call.data = Spike(SENSOR_COUNT)
    /\ fr_call.sw = {"outlier", "median"}
    /\ fr_out.kind = "value"
    /\ Key("median_sensor_", 0) \in DOMAIN sensor_buffers
    /\ LastOf(sensor_buffers[Key("median_sensor_", 0)]) = 1

\* a moving_average_window call on an instance with a positive window
MovingAverageCall ==
    /\ window_size > 0
    /\ nr_module' = nr_module
    /\ window_size' = window_size
    /\ ma_run' >= 1
    /\ <<sensor_buffers, ma_in, ma_run, ma_out>>' # <<sensor_buffers, ma_in, ma_run, ma_out>>

\* C27: the value a moving-average call returns is the mean of the sensor's
\* buffer including the value just appended, also while the buffer is
\* under-full
C27_MeanOfBufferWithValue ==
    [][MovingAverageCall =>
          /\ Holds(sensor_buffers', Key("sensor_", 0))
          /\ LastOf(sensor_buffers'[Key("sensor_", 0)]) = ma_in'
          /\ ma_out' = Mean(sensor_buffers'[Key("sensor_", 0)])]_vars

\* C28: while a frame of one client is being scored the classifier does not
\* hold the event-loop thread, so the loop stays free to receive from and
\* send to the other connections
C28_ClassifierOffLoop == \A c \in Conns : pc[c] = "scoring" => LoopFree

C30_OneResponsePerMessage ==
    [][Len(pws_log') = Len(pws_log) + 1
          => /\ Len(pws_sent') = Len(pws_sent) + 1
             /\ pws_pc' = "recv"]_vars

====
